---- MODULE Spec2Model ----
\* Scan orchestration of backend/server.py: the scan registry (scan_states),
\* the API handlers that read and write it, and the background scan task
\* (RValueScanner.scan_blocks) with its block and transaction tasks.
\* The handlers and tasks run on one asyncio event loop, so every action below
\* is the code between two suspension points (network call, gather, sleep).
EXTENDS Integers, Sequences, FiniteSets, Bags, TLC

\* ---------------------------------------------------------------- bounds
MaxBlock == 1          \* block heights are 0..MaxBlock
MaxIds == 2            \* scan ids a client may send
MaxTasks == 2          \* accepted scans (background tasks) per run
MaxBatch == 1          \* batch sizes a client may configure: 1..MaxBatch
MaxConc == 1           \* block concurrency a client may configure: 1..MaxConc
MaxRunning == 1        \* scan tasks inside their batch loop at the same time
MaxRequests == 1       \* request caps a client may configure: 1..MaxRequests (the route takes
                       \* 5..100; permit counts are scaled down, as ProviderCap is)
MaxLogCalls == 203     \* add_log calls made for one job
MaxOps == 1            \* parallel requests of the scanner under way at once
MaxOwn == 2            \* /current-height and /balance/check requests under way at once
MaxAddresses == 2      \* addresses of one /balance/check request: 1..MaxAddresses
ProviderCap == 1       \* permits of a provider semaphore (the source builds them with 30, 30, 40)
MaxGroup == 3          \* signature records under one r value: 1..MaxGroup
MaxBytes == 2          \* length of the r and s byte strings DER-encoded: 1..MaxBytes
MaxInput == 12         \* r, s and digest arguments of recover_private_key: 0..MaxInput
MaxBuffer == 9         \* length of the buffers given to the DER parser: 7..MaxBuffer
MaxPadding == 11       \* bytes after the signature in a long script-signature
MaxRange == 2          \* end_block of the scan taken by itself, over the blocks 0..MaxRange

\* ----------------------------------------------------- program constants
InitBatchSize == 200
InitMaxConcurrentBlocks == 50
LogCapacity == 200
InitRateLimit == 100
Retries == 3
KeyWidth == 64
ProgressLogs == 50
CurveOrder == 11       \* prime group order n (small stand-in for secp256k1's n)

ScanIds == 1..MaxIds
Blocks == 0..MaxBlock
\* batch sizes a client sets (the route takes 1..200): the small ones, and with
\* them the default
SmallBatchSizes == 1..MaxBatch
BatchSizes == SmallBatchSizes \cup {InitBatchSize}
ConcChoices == 1..MaxConc
RequestChoices == 1..MaxRequests
AddressTypeChoices == {{}, {"legacy"}}

\* the scan registry, the background scan tasks, the scanner's settings and the
\* HTTP status of the last response
VARIABLES scan_states, tasks, batch_size, max_concurrent_blocks, response
\* a function of the program taken by itself: the arguments it is called with
\* and what it returned
VARIABLES args, ret
\* the provider layer: the scanner's global semaphore object and the outbound
\* calls of the process
\* the provider layer: whether a cryptoapis key is configured, the scanner's
\* global semaphore object, the provider-layer operations under way and their
\* outbound calls
VARIABLES cryptoapis_key, rate_limit_semaphore, requests, calls

scan_vars == <<scan_states, tasks, batch_size, max_concurrent_blocks, response>>
unit_vars == <<args, ret>>
api_vars == <<cryptoapis_key, rate_limit_semaphore, requests, calls>>

vars == <<scan_vars, unit_vars, api_vars>>

\* ------------------------------------------------------------ arithmetic
Min(a, b) == IF a < b THEN a ELSE b

RECURSIVE Gcd(_, _)
Gcd(a, b) == IF b = 0 THEN a ELSE Gcd(b, a % b)

\* (blocks_processed / total_blocks) * 100, kept exact as a reduced fraction
Percentage(blocks_processed, total_blocks) ==
    LET num == blocks_processed * 100
        g == Gcd(num, total_blocks)
    IN <<num \div g, total_blocks \div g>>

RECURSIVE ModPow(_, _, _)
ModPow(x, e, m) == IF e = 0 THEN 1 % m ELSE (x * ModPow(x, e - 1, m)) % m

\* ------------------------------------------------------------ chain data
\* The chain the providers serve: block 2 is empty, every other block b holds
\* one transaction (id b); transaction 0 has two legacy inputs, the others one.
\* Every input is signed by the same key d with the same nonce k, hence the
\* same r: s = k^-1 * (sighash + r * d) mod n.
ChainTxIds(b) == IF b = 2 THEN <<>> ELSE <<b>>

Signer == [d |-> 7, k |-> 3, r |-> 5]

\* the digest the signer signed for input input_index of transaction tx_id
SigHash(tx_id, input_index) == (4 * tx_id + 5 * input_index + 3) % CurveOrder

\* k^-1 mod n for the prime n
Inverse(k) == ModPow(k, CurveOrder - 2, CurveOrder)

SignWith(k_inv, d, r, h) == (k_inv * (h + r * d)) % CurveOrder

Sign(d, k, r, h) == SignWith(Inverse(k), d, r, h)

TxInputs(x) ==
    [i \in 1..(IF x = 0 THEN 2 ELSE 1) |->
        [kind |-> "scriptsig", r |-> Signer.r,
         s |-> Sign(Signer.d, Signer.k, Signer.r, SigHash(x, i - 1))]]

\* sha256(message_hash) % n of the message_hash string "<tx_id>_<input_index>"
DigestModN(tx_id, input_index) == (7 * tx_id + 3 * input_index + 2) % CurveOrder

\* ------------------------------------------------------------- registry
NewJob(id, s, e, ty) ==
    [config |-> [scan_id |-> id, start_block |-> s, end_block |-> e, address_types |-> ty],
     status |-> "initializing",
     current_block |-> s,
     blocks_scanned |-> 0,
     total_blocks |-> e - s + 1,
     signatures_found |-> 0,
     r_reuse_pairs |-> 0,
     keys_recovered |-> 0,
     progress_percentage |-> <<0, 1>>,
     errors_encountered |-> 0,
     logs |-> 0,
     recovered_keys |-> <<>>]

\* add_log: append one entry, keep the last LogCapacity (logs is the length)
add_log(ss, id) ==
    IF id \in DOMAIN ss
    THEN [ss EXCEPT ![id].logs = IF @ + 1 > LogCapacity THEN LogCapacity ELSE @ + 1]
    ELSE ss

RECURSIVE add_logs(_, _, _)
add_logs(ss, id, k) == IF k = 0 THEN ss ELSE add_logs(add_log(ss, id), id, k - 1)

NewTask(id, s, e, ty) ==
    [scan_id |-> id, start_block |-> s, end_block |-> e, address_types |-> ty,
     pc |-> "pending", step |-> 0, batch_start |-> s, batch_end |-> s,
     sem |-> 0, blk |-> <<>>, signatures_by_r |-> <<>>,
     \* history: the blocks whose fetch was issued, and the batch_end of the batch
     \* that was current when a stop was accepted while the scan was running
     fetched |-> {}, stop_end |-> {}]

EndedTask(id) == [NewTask(id, 0, 0, {}) EXCEPT !.pc = "done"]

\* ------------------------------------------------- signature extraction
\* a hash argument is a str (the message_hash f"{tx_id}_{input_index}" of a
\* signature record) or an int (a digest)
MessageHash(tx_id, input_index) == [str |-> <<tx_id, input_index>>]
IntHash(h) == [int |-> h]
IsStr(h) == "str" \in DOMAIN h

RECURSIVE ExtractFrom(_, _, _)
ExtractFrom(x, ty, i) ==
    IF i > Len(TxInputs(x)) THEN <<>>
    ELSE LET vin == TxInputs(x)[i]
             legacy == vin.kind = "scriptsig" /\ "legacy" \in ty
             witness == vin.kind = "witness" /\ ("segwit" \in ty \/ "taproot" \in ty)
             rec == [tx_id |-> x, input_index |-> i - 1, r |-> vin.r, s |-> vin.s,
                     type |-> IF vin.kind = "scriptsig" THEN "legacy" ELSE "segwit",
                     message_hash |-> MessageHash(x, i - 1)]
         IN (IF legacy \/ witness THEN <<rec>> ELSE <<>>) \o ExtractFrom(x, ty, i + 1)

extract_signatures(x, ty) == ExtractFrom(x, ty, 1)

\* ------------------------------------------------------ recovery engine
\* the return value None of recover_private_key (a key is a non-empty string)
NoKey == <<>>

HexDigits == <<"0", "1", "2", "3", "4", "5", "6", "7", "8", "9", "a", "b", "c", "d", "e", "f">>

\* hex(v)[2:] for v >= 0
RECURSIVE Hex(_)
Hex(v) == IF v < 16 THEN <<HexDigits[v + 1]>> ELSE Append(Hex(v \div 16), HexDigits[(v % 16) + 1])

\* str.zfill(width)
RECURSIVE zfill(_, _)
zfill(str, width) == IF Len(str) >= width THEN str ELSE zfill(<<"0">> \o str, width)

\* int(hashlib.sha256(hash.encode()).hexdigest(), 16) % n
Sha256ModN(h) == DigestModN(h.str[1], h.str[2])

\* variant of recover_private_key without the s_diff / hash_diff guard
recover_private_key_Unguarded(r, s1, s2, hash1, hash2) ==
    IF IsStr(hash1) /\ IsStr(hash2) /\ hash1 = hash2 THEN NoKey
    ELSE LET n == CurveOrder
             hash1_int == IF IsStr(hash1) THEN Sha256ModN(hash1) ELSE hash1.int
             hash2_int == IF IsStr(hash2) THEN Sha256ModN(hash2) ELSE hash2.int
             s_diff == (s1 - s2) % n
             hash_diff == (hash1_int - hash2_int) % n
             k == (hash_diff * ModPow(s_diff, n - 2, n)) % n
             private_key == ((s1 * k - hash1_int) * ModPow(r, n - 2, n)) % n
         IN IF private_key = 0 THEN NoKey
            ELSE zfill(Hex(private_key), KeyWidth)

\* variant of recover_private_key without the test of the result against zero
recover_private_key_ZeroKey(r, s1, s2, hash1, hash2) ==
    IF IsStr(hash1) /\ IsStr(hash2) /\ hash1 = hash2 THEN NoKey
    ELSE LET n == CurveOrder
             hash1_int == IF IsStr(hash1) THEN Sha256ModN(hash1) ELSE hash1.int
             hash2_int == IF IsStr(hash2) THEN Sha256ModN(hash2) ELSE hash2.int
             s_diff == (s1 - s2) % n
             hash_diff == (hash1_int - hash2_int) % n
             k == (hash_diff * ModPow(s_diff, n - 2, n)) % n
             private_key == ((s1 * k - hash1_int) * ModPow(r, n - 2, n)) % n
         IN IF s_diff = 0 \/ hash_diff = 0 THEN NoKey
            ELSE zfill(Hex(private_key), KeyWidth)

\* variant of recover_private_key that takes the nonce for the key
recover_private_key_Nonce(r, s1, s2, hash1, hash2) ==
    IF IsStr(hash1) /\ IsStr(hash2) /\ hash1 = hash2 THEN NoKey
    ELSE LET n == CurveOrder
             hash1_int == IF IsStr(hash1) THEN Sha256ModN(hash1) ELSE hash1.int
             hash2_int == IF IsStr(hash2) THEN Sha256ModN(hash2) ELSE hash2.int
             s_diff == (s1 - s2) % n
             hash_diff == (hash1_int - hash2_int) % n
             k == (hash_diff * ModPow(s_diff, n - 2, n)) % n
         IN IF s_diff = 0 \/ hash_diff = 0 THEN NoKey
            ELSE IF k = 0 THEN NoKey
            ELSE zfill(Hex(k), KeyWidth)

\* recover_private_key(r, s1, s2, hash1, hash2), called with two str hashes (as
\* find_reused_r_values does) or with two int hashes; r, s1, s2 as integers
recover_private_key(r, s1, s2, hash1, hash2) ==
    IF IsStr(hash1) /\ IsStr(hash2) /\ hash1 = hash2 THEN NoKey
    ELSE LET n == CurveOrder
             hash1_int == IF IsStr(hash1) THEN Sha256ModN(hash1) ELSE hash1.int
             hash2_int == IF IsStr(hash2) THEN Sha256ModN(hash2) ELSE hash2.int
             s_diff == (s1 - s2) % n
             hash_diff == (hash1_int - hash2_int) % n
             k == (hash_diff * ModPow(s_diff, n - 2, n)) % n
             private_key == ((s1 * k - hash1_int) * ModPow(r, n - 2, n)) % n
         IN IF s_diff = 0 \/ hash_diff = 0 THEN NoKey
            ELSE IF k = 0 THEN NoKey
            ELSE IF private_key = 0 THEN NoKey
            ELSE zfill(Hex(private_key), KeyWidth)

\* -------------------------------------------------- r-value correlation
\* signatures_by_r is the insertion-ordered dict r -> [records]
RECURSIVE GroupIndex(_, _, _)
GroupIndex(sbr, r, i) ==
    IF i > Len(sbr) THEN 0 ELSE IF sbr[i].r = r THEN i ELSE GroupIndex(sbr, r, i + 1)

InsertSig(sbr, sig) ==
    LET i == GroupIndex(sbr, sig.r, 1)
    IN IF i = 0 THEN Append(sbr, [r |-> sig.r, sigs |-> <<sig>>])
       ELSE [sbr EXCEPT ![i].sigs = Append(@, sig)]

RECURSIVE MergeSigs(_, _)
MergeSigs(sbr, sigs) ==
    IF sigs = <<>> THEN sbr ELSE MergeSigs(InsertSig(sbr, Head(sigs)), Tail(sigs))

RECURSIVE PairsFrom(_, _, _)
PairsFrom(i, j, n) ==
    IF i >= n THEN <<>>
    ELSE IF j > n THEN PairsFrom(i + 1, i + 2, n)
    ELSE <<<<i, j>>>> \o PairsFrom(i, j + 1, n)

\* variant of SameInput that looks at the transaction only
SameInput_TxOnly(a, b) == a.tx_id = b.tx_id

SameInput(a, b) == a.tx_id = b.tx_id /\ a.input_index = b.input_index

\* the pairs of one r-group for which recovery is attempted, in loop order
AttemptedPairs(g) ==
    LET keep(p) == ~SameInput(g.sigs[p[1]], g.sigs[p[2]])
    IN SelectSeq(PairsFrom(1, 2, Len(g.sigs)), keep)

PairKey(g, p) ==
    LET sig1 == g.sigs[p[1]]
        sig2 == g.sigs[p[2]]
    IN recover_private_key(g.r, sig1.s, sig2.s, sig1.message_hash, sig2.message_hash)

\* private_key_to_address(private_key_hex, compressed): the placeholder text
\* f"{prefix}{private_key_hex[:8]}...{private_key_hex[-8:]}", as a character sequence
private_key_to_address(private_key_hex, compressed) ==
    LET prefix == IF ~compressed THEN <<"1">> ELSE <<"b", "c", "1">>
        len == Len(private_key_hex)
    IN prefix \o SubSeq(private_key_hex, 1, Min(8, len)) \o <<".", ".", ".">>
              \o SubSeq(private_key_hex, IF len > 8 THEN len - 7 ELSE 1, len)

RecoveredOf(g, p) ==
    LET sig1 == g.sigs[p[1]]
        sig2 == g.sigs[p[2]]
    IN [private_key |-> PairKey(g, p), r_value |-> g.r,
        compressed_address |-> private_key_to_address(PairKey(g, p), TRUE),
        uncompressed_address |-> private_key_to_address(PairKey(g, p), FALSE),
        tx1_hash |-> sig1.tx_id, tx1_input_index |-> sig1.input_index,
        tx2_hash |-> sig2.tx_id, tx2_input_index |-> sig2.input_index]

RECURSIVE GroupKeys(_, _)
GroupKeys(g, ps) ==
    IF ps = <<>> THEN <<>>
    ELSE (IF PairKey(g, Head(ps)) # NoKey THEN <<RecoveredOf(g, Head(ps))>> ELSE <<>>)
         \o GroupKeys(g, Tail(ps))

RECURSIVE AllKeys(_)
AllKeys(sbr) ==
    IF sbr = <<>> THEN <<>>
    ELSE (IF Len(Head(sbr).sigs) >= 2 THEN GroupKeys(Head(sbr), AttemptedPairs(Head(sbr))) ELSE <<>>)
         \o AllKeys(Tail(sbr))

RECURSIVE AttemptCount(_)
AttemptCount(sbr) ==
    IF sbr = <<>> THEN 0
    ELSE (IF Len(Head(sbr).sigs) >= 2 THEN Len(AttemptedPairs(Head(sbr))) ELSE 0)
         + AttemptCount(Tail(sbr))

\* the calls of recover_private_key of one pass, in order: <<group, i, j>> stands
\* for the call made for signatures[i], signatures[j] of the group-th r value
RECURSIVE AttemptsFrom(_, _)
AttemptsFrom(sbr, group) ==
    IF group > Len(sbr) THEN <<>>
    ELSE LET pairs == IF Len(sbr[group].sigs) >= 2 THEN AttemptedPairs(sbr[group]) ELSE <<>>
         IN [k \in 1..Len(pairs) |-> <<group, pairs[k][1], pairs[k][2]>>]
            \o AttemptsFrom(sbr, group + 1)

ReusedCount(sbr) == Len(SelectSeq(sbr, LAMBDA g : Len(g.sigs) >= 2))

\* variant of find_reused_r_values whose reuse count also depends on what other
\* scans of the registry have done by the time the pass runs
find_reused_r_values_Shared(ss, id, sbr) ==
    LET earlier == Cardinality({j \in DOMAIN ss : ss[j].status = "completed"})
    IN add_logs([ss EXCEPT ![id].keys_recovered = @ + Len(AllKeys(sbr)),
                           ![id].r_reuse_pairs = ReusedCount(sbr) + earlier,
                           ![id].recovered_keys = AllKeys(sbr)],
                id, 2)

\* find_reused_r_values: one pass over the groups; keys_recovered is incremented
\* per recovered key, r_reuse_pairs and recovered_keys are assigned at the end
find_reused_r_values(ss, id, sbr) ==
    LET reused_count == ReusedCount(sbr)
        recovered_keys == AllKeys(sbr)
        attempts == AttemptCount(sbr)
        \* log lines: "Analyzing", one per reused group, one per attempt, three per
        \* recovered key, one per failed attempt, one closing line
        nlogs == 1 + reused_count + attempts + 3 * Len(recovered_keys)
                 + (attempts - Len(recovered_keys)) + 1
        ss1 == [ss EXCEPT ![id].keys_recovered = @ + Len(recovered_keys),
                          ![id].r_reuse_pairs = reused_count,
                          ![id].recovered_keys = recovered_keys]
    IN add_logs(ss1, id, nlogs)

\* ------------------------------------------------------- provider layer
\* values a provider call can end with: None, an empty value ("", [] or {}) and
\* a non-empty value
None == "None"
Empty == "empty"
Data == "data"

\* get_available_apis: cryptoapis is included when a key is configured
get_available_apis(key) ==
    IF key THEN <<"blockstream", "mempool", "cryptoapis">> ELSE <<"blockstream", "mempool">>

\* _get_block_hash_from_api, _get_block_transactions_from_api and
\* _get_transaction_from_api: the body of the response if make_request returned a
\* non-empty one, else "" / [] / {}; no exception leaves them
EndpointResult(result) == IF result \in {None, Empty} THEN Empty ELSE result

\* try_api results of one parallel request, in the order the calls complete
ProviderAnswers(key) == [1..Len(get_available_apis(key)) -> {Empty, Data}]

\* variant of CancelRemaining in which the losers are cancelled
CancelRemaining_Cancels(n_tasks) == "cancelled"

\* the loop `for task in tasks: if not task.done(): task.cancel()` runs over the
\* coroutine objects handed to as_completed, which have no attribute done: with
\* at least one task it raises AttributeError
CancelRemaining(n_tasks) == IF n_tasks > 0 THEN "AttributeError" ELSE "cancelled"

\* the as_completed loop of make_parallel_api_request: an exception raised in
\* the loop body is caught and the loop continues with the next completed call
RECURSIVE AsCompleted(_, _)
AsCompleted(completed, n_tasks) ==
    IF completed = <<>> THEN None
    ELSE IF Head(completed) # None /\ CancelRemaining(n_tasks) = "cancelled"
    THEN Head(completed)
    ELSE AsCompleted(Tail(completed), n_tasks)

make_parallel_api_request(completed) == AsCompleted(completed, Len(completed))

\* get_block_hash, get_block_transactions, get_transaction: result if result else "" / [] / {}
get_block_hash(completed) ==
    LET result == make_parallel_api_request(completed)
    IN IF result \in {None, Empty} THEN Empty ELSE result

\* ----------------------------------------------------------- API layer
\* response is the HTTP status code of the last response sent (0: none yet)
Respond(code) == response' = code

\* variant of InvalidRequest that forgets the address-type check
InvalidRequest_RangeOnly(s, e, ty) == e < s

InvalidRequest(s, e, ty) == e < s \/ ty = {}

\* start_scan: both HTTPException(400) are raised inside the handler's try and
\* re-raised as HTTPException(500) by its except clause
StartScan(id, s, e, ty) ==
    /\ IF InvalidRequest(s, e, ty)
       THEN /\ Respond(500)
            /\ UNCHANGED <<scan_states, tasks>>
       ELSE /\ Len(tasks) < MaxTasks
            \* scan ids are opaque: a fresh id is the least unused one
            /\ id <= Cardinality(DOMAIN scan_states) + 1
            /\ scan_states' = [x \in DOMAIN scan_states \cup {id} |->
                                 IF x = id THEN NewJob(id, s, e, ty) ELSE scan_states[x]]
            /\ tasks' = Append(tasks, NewTask(id, s, e, ty))
            /\ Respond(200)
    /\ UNCHANGED <<batch_size, max_concurrent_blocks, unit_vars, api_vars>>

GetScanProgress(id) ==
    /\ Respond(IF id \in DOMAIN scan_states THEN 200 ELSE 404)
    /\ UNCHANGED <<scan_states, tasks, batch_size, max_concurrent_blocks, unit_vars, api_vars>>

GetScanResults(id) ==
    /\ Respond(IF id \in DOMAIN scan_states THEN 200 ELSE 404)
    /\ UNCHANGED <<scan_states, tasks, batch_size, max_concurrent_blocks, unit_vars, api_vars>>

\* variant of stop_scan without the registry lookup
stop_scan_Unchecked(ss, id) ==
    IF id \notin DOMAIN ss
    THEN [ss |-> ss, code |-> 200]
    ELSE [ss |-> [ss EXCEPT ![id].status = "stopped"], code |-> 200]

stop_scan(ss, id) ==
    IF id \notin DOMAIN ss
    THEN [ss |-> ss, code |-> 404]
    ELSE [ss |-> [ss EXCEPT ![id].status = "stopped"], code |-> 200]

\* history only: note, for every task of this id whose batch loop is running,
\* the batch that is current when the stop is accepted
NoteStop(id) ==
    [t \in DOMAIN tasks |->
        IF /\ tasks[t].scan_id = id
           /\ tasks[t].pc \in {"gather", "sleep"}
           /\ scan_states[id].status = "running"
           /\ tasks[t].stop_end = {}
        THEN [tasks[t] EXCEPT !.stop_end = {tasks[t].batch_end}]
        ELSE tasks[t]]

StopScan(id) ==
    LET res == stop_scan(scan_states, id)
    IN /\ scan_states' = res.ss
       /\ tasks' = IF res.code = 200 THEN NoteStop(id) ELSE tasks
       /\ Respond(res.code)
       /\ UNCHANGED <<batch_size, max_concurrent_blocks, unit_vars, api_vars>>

\* asyncio.Semaphore(value): a new object. Objects are named by ids; the name of
\* an object that no call holds or waits for any more is taken again.
SemaphoresInUse ==
    {c.sem.id : c \in {d \in DOMAIN calls : d.api = "scanner" /\ d.pc # "provider_wait"}}

Semaphore(value) ==
    [id |-> CHOOSE i \in 1..(Cardinality(SemaphoresInUse) + 1) :
                /\ i \notin SemaphoresInUse
                /\ \A j \in 1..(i - 1) : j \in SemaphoresInUse,
     value |-> value]

UpdatePerformanceConfig(b, c, m) ==
    /\ batch_size' = b
    /\ max_concurrent_blocks' = c
    /\ rate_limit_semaphore' = Semaphore(m)
    /\ Respond(200)
    /\ UNCHANGED <<scan_states, tasks, unit_vars, cryptoapis_key, requests, calls>>

\* ------------------------------------------------------- the scan task
NewBlock == [pc |-> "wait", pending |-> {}, got |-> <<>>, signatures |-> <<>>]

SeqRange(q) == {q[i] : i \in DOMAIN q}

\* variant of FinishScan that leaves the loop without the correlation pass
FinishScan_NoPass(ss, tk) ==
    [ss |-> add_log([ss EXCEPT ![tk.scan_id].status = "completed"], tk.scan_id),
     tk |-> EndedTask(tk.scan_id)]

\* scan_blocks, after the loop: correlation pass, then status and closing log
FinishScan(ss, tk) ==
    LET ss1 == find_reused_r_values(ss, tk.scan_id, tk.signatures_by_r)
        ss2 == [ss1 EXCEPT ![tk.scan_id].status = "completed"]
    \* the task's locals end with it
    IN [ss |-> add_log(ss2, tk.scan_id),
        tk |-> EndedTask(tk.scan_id)]

\* one iteration of the batch loop at batch_start, up to the gather
LoopIteration(ss, tk, bstart) ==
    IF ss[tk.scan_id].status = "stopped"
    THEN FinishScan(ss, tk)
    ELSE LET batch_end == Min(bstart + batch_size - 1, tk.end_block)
             ss1 == add_log(ss, tk.scan_id)
             blocks == IF ss1[tk.scan_id].status = "stopped" THEN {} ELSE bstart..batch_end
         IN [ss |-> ss1,
             tk |-> [tk EXCEPT !.pc = "gather", !.batch_start = bstart, !.batch_end = batch_end,
                               !.sem = max_concurrent_blocks,
                               !.blk = [b \in blocks |-> NewBlock]]]

RunningTasks == {u \in DOMAIN tasks : tasks[u].pc \in {"gather", "sleep"}}

\* the background task starts: header of scan_blocks and the first iteration;
\* range(start_block, end_block + 1, self.batch_size) fixes the step here
ScanBegin(t) ==
    /\ tasks[t].pc = "pending"
    /\ Cardinality(RunningTasks) < MaxRunning
    /\ LET tk == tasks[t]
           ss1 == [scan_states EXCEPT ![tk.scan_id].status = "running",
                                      ![tk.scan_id].current_block = tk.start_block,
                                      ![tk.scan_id].total_blocks = tk.end_block - tk.start_block + 1]
           res == LoopIteration(ss1, [tk EXCEPT !.step = batch_size], tk.start_block)
       IN /\ scan_states' = res.ss
          /\ tasks' = [tasks EXCEPT ![t] = res.tk]
    /\ UNCHANGED <<batch_size, max_concurrent_blocks, response, unit_vars, api_vars>>

\* after the pacing sleep: next batch_start of the range, or the end of the loop
ScanWake(t) ==
    /\ tasks[t].pc = "sleep"
    /\ LET tk == tasks[t]
           next == tk.batch_start + tk.step
           res == IF next > tk.end_block THEN FinishScan(scan_states, tk)
                  ELSE LoopIteration(scan_states, tk, next)
       IN /\ scan_states' = res.ss
          /\ tasks' = [tasks EXCEPT ![t] = res.tk]
    /\ UNCHANGED <<batch_size, max_concurrent_blocks, response, unit_vars, api_vars>>

RECURSIVE BatchSignatures(_, _, _)
BatchSignatures(blk, b, last) ==
    IF b > last THEN <<>>
    ELSE (IF b \in DOMAIN blk THEN blk[b].signatures ELSE <<>>) \o BatchSignatures(blk, b + 1, last)

\* the gather of a batch has returned: merge, counters, progress, log
BatchJoin(t) ==
    /\ tasks[t].pc = "gather"
    /\ \A b \in DOMAIN tasks[t].blk : tasks[t].blk[b].pc = "done"
    /\ LET tk == tasks[t]
           id == tk.scan_id
           total_blocks == tk.end_block - tk.start_block + 1
           sigs == BatchSignatures(tk.blk, tk.batch_start, tk.batch_end)
           blocks_processed == Min(tk.batch_end - tk.start_block + 1, total_blocks)
           ss1 == [scan_states EXCEPT ![id].signatures_found = @ + Len(sigs),
                                      ![id].blocks_scanned = blocks_processed,
                                      ![id].current_block = tk.batch_end,
                                      ![id].progress_percentage = Percentage(blocks_processed, total_blocks)]
       IN /\ scan_states' = add_log(ss1, id)
          /\ tasks' = [tasks EXCEPT ![t].pc = "sleep",
                                    ![t].signatures_by_r = MergeSigs(tk.signatures_by_r, sigs)]
    /\ UNCHANGED <<batch_size, max_concurrent_blocks, response, unit_vars, api_vars>>

\* ------------------------------------------------------ the block tasks
\* variant of ActiveBlocks for a semaphore that is never taken
ActiveBlocks_None(tk) == {}

ActiveBlocks(tk) == {b \in DOMAIN tk.blk : tk.blk[b].pc \in {"hash", "txids", "txs"}}

BlockDone(blkrec, sigs) ==
    [blkrec EXCEPT !.pc = "done", !.pending = {}, !.got = <<>>,
                   !.signatures = sigs]

\* process_single_block enters the batch semaphore, logs and issues the hash fetch
BlockStart(t, b) ==
    /\ tasks[t].pc = "gather"
    /\ b \in DOMAIN tasks[t].blk
    /\ tasks[t].blk[b].pc = "wait"
    /\ Cardinality(ActiveBlocks(tasks[t])) < tasks[t].sem
    /\ scan_states' = add_log(scan_states, tasks[t].scan_id)
    /\ tasks' = [tasks EXCEPT ![t].blk[b].pc = "hash", ![t].fetched = @ \cup {b}]
    /\ UNCHANGED <<batch_size, max_concurrent_blocks, response, unit_vars, api_vars>>

\* variant of OnBlockHash in which a failed hash fetch escapes to the batch loop
OnBlockHash_Propagates(ss, tk, b, ok) ==
    IF ~ok
    THEN [ss |-> add_log([ss EXCEPT ![tk.scan_id].status = "failed"], tk.scan_id),
          tk |-> EndedTask(tk.scan_id)]
    ELSE [ss |-> add_log(ss, tk.scan_id),
          tk |-> [tk EXCEPT !.blk[b].pc = "txids"]]

\* get_block_hash returned: "" (every provider failed) or the hash
OnBlockHash(ss, tk, b, ok) ==
    IF ~ok
    THEN [ss |-> add_log(ss, tk.scan_id),
          tk |-> [tk EXCEPT !.blk[b] = BlockDone(@, <<>>)]]
    ELSE [ss |-> add_log(ss, tk.scan_id),
          tk |-> [tk EXCEPT !.blk[b].pc = "txids"]]

BlockHash(t, b, ok) ==
    /\ tasks[t].pc = "gather"
    /\ b \in DOMAIN tasks[t].blk
    /\ tasks[t].blk[b].pc = "hash"
    /\ LET res == OnBlockHash(scan_states, tasks[t], b, ok)
       IN /\ scan_states' = res.ss
          /\ tasks' = [tasks EXCEPT ![t] = res.tk]
    /\ UNCHANGED <<batch_size, max_concurrent_blocks, response, unit_vars, api_vars>>

\* get_block_transactions returned: [] (failure or empty block) or the txids;
\* one transaction task per txid unless the scan is stopped
OnBlockTxIds(ss, tk, b, ok) ==
    LET id == tk.scan_id
        tx_ids == IF ok THEN ChainTxIds(b) ELSE <<>>
        tx_tasks == IF ss[id].status = "stopped" THEN {} ELSE SeqRange(tx_ids)
    IN IF tx_ids = <<>>
       THEN [ss |-> add_log(ss, id),
             tk |-> [tk EXCEPT !.blk[b] = BlockDone(@, <<>>)]]
       ELSE IF tx_tasks = {}
       THEN [ss |-> add_logs(ss, id, 2),
             tk |-> [tk EXCEPT !.blk[b] = BlockDone(@, <<>>)]]
       ELSE [ss |-> add_log(ss, id),
             tk |-> [tk EXCEPT !.blk[b].pc = "txs", !.blk[b].pending = tx_tasks]]

BlockTxIds(t, b, ok) ==
    /\ tasks[t].pc = "gather"
    /\ b \in DOMAIN tasks[t].blk
    /\ tasks[t].blk[b].pc = "txids"
    /\ LET res == OnBlockTxIds(scan_states, tasks[t], b, ok)
       IN /\ scan_states' = res.ss
          /\ tasks' = [tasks EXCEPT ![t] = res.tk]
    /\ UNCHANGED <<batch_size, max_concurrent_blocks, response, unit_vars, api_vars>>

\* process_single_transaction: get_transaction returned {} or the transaction
TxDone(t, b, x, ok) ==
    /\ tasks[t].pc = "gather"
    /\ b \in DOMAIN tasks[t].blk
    /\ tasks[t].blk[b].pc = "txs"
    /\ x \in tasks[t].blk[b].pending
    /\ LET tk == tasks[t]
           signatures == IF ok THEN extract_signatures(x, tk.address_types) ELSE <<>>
       IN /\ scan_states' = IF signatures # <<>> THEN add_log(scan_states, tk.scan_id)
                            ELSE scan_states
          /\ tasks' = [tasks EXCEPT ![t].blk[b].pending = @ \ {x},
                                    ![t].blk[b].got = [y \in DOMAIN @ \cup {x} |->
                                                         IF y = x THEN signatures ELSE @[y]]]
    /\ UNCHANGED <<batch_size, max_concurrent_blocks, response, unit_vars, api_vars>>

RECURSIVE CollectSignatures(_, _)
CollectSignatures(tx_ids, got) ==
    IF tx_ids = <<>> THEN <<>>
    ELSE (IF Head(tx_ids) \in DOMAIN got THEN got[Head(tx_ids)] ELSE <<>>)
         \o CollectSignatures(Tail(tx_ids), got)

\* the gather of the transaction tasks has returned
BlockFinish(t, b) ==
    /\ tasks[t].pc = "gather"
    /\ b \in DOMAIN tasks[t].blk
    /\ tasks[t].blk[b].pc = "txs"
    /\ tasks[t].blk[b].pending = {}
    /\ scan_states' = add_log(scan_states, tasks[t].scan_id)
    /\ tasks' = [tasks EXCEPT ![t].blk[b] =
                    BlockDone(@, CollectSignatures(ChainTxIds(b), @.got))]
    /\ UNCHANGED <<batch_size, max_concurrent_blocks, response, unit_vars, api_vars>>

\* the registry, the scanner and its provider layer after the module is loaded
ScanInit ==
    /\ scan_states = <<>>
    /\ tasks = <<>>
    /\ batch_size = InitBatchSize
    /\ max_concurrent_blocks = InitMaxConcurrentBlocks
    /\ response = 0

ApiInit ==
    /\ cryptoapis_key \in BOOLEAN
    /\ rate_limit_semaphore = [id |-> 1, value |-> InitRateLimit]
    /\ requests = <<>>
    /\ calls = EmptyBag

UnitIdle == args = <<>> /\ ret = <<>>

Init == ScanInit /\ ApiInit /\ UnitIdle

TaskIds == 1..Len(tasks)

\* The whole program. The hash fetch of a block task ends with what the race of
\* the providers' answers gives.
Next ==
    \/ \E id \in ScanIds, s \in Blocks, e \in Blocks, ty \in AddressTypeChoices :
          StartScan(id, s, e, ty)
    \/ \E id \in ScanIds : GetScanProgress(id)
    \/ \E id \in ScanIds : GetScanResults(id)
    \/ \E id \in ScanIds : StopScan(id)
    \/ \E b \in BatchSizes, c \in ConcChoices, m \in RequestChoices :
          UpdatePerformanceConfig(b, c, m)
    \/ \E t \in TaskIds : ScanBegin(t)
    \/ \E t \in TaskIds : ScanWake(t)
    \/ \E t \in TaskIds : BatchJoin(t)
    \/ \E t \in TaskIds, b \in Blocks : BlockStart(t, b)
    \/ \E t \in TaskIds, b \in Blocks, answers \in ProviderAnswers(cryptoapis_key) :
          BlockHash(t, b, get_block_hash(answers) # Empty)

Spec == Init /\ [][Next]_vars

\* The scanner by itself, against a provider layer whose fetches may succeed or
\* fail: the units of process_single_block with the BlockchainAPI stubbed.
StubNext ==
    \/ \E id \in ScanIds, s \in Blocks, e \in Blocks, ty \in AddressTypeChoices :
          StartScan(id, s, e, ty)
    \/ \E id \in ScanIds : GetScanProgress(id)
    \/ \E id \in ScanIds : GetScanResults(id)
    \/ \E id \in ScanIds : StopScan(id)
    \/ \E b \in SmallBatchSizes, c \in ConcChoices, m \in RequestChoices :
          UpdatePerformanceConfig(b, c, m)
    \/ \E t \in TaskIds : ScanBegin(t)
    \/ \E t \in TaskIds : ScanWake(t)
    \/ \E t \in TaskIds : BatchJoin(t)
    \/ \E t \in TaskIds, b \in Blocks : BlockStart(t, b)
    \/ \E t \in TaskIds, b \in Blocks, ok \in BOOLEAN : BlockHash(t, b, ok)
    \/ \E t \in TaskIds, b \in Blocks, ok \in BOOLEAN : BlockTxIds(t, b, ok)
    \/ \E t \in TaskIds, b \in Blocks, x \in Blocks, ok \in BOOLEAN : TxDone(t, b, x, ok)
    \/ \E t \in TaskIds, b \in Blocks : BlockFinish(t, b)

ApiIdle ==
    /\ cryptoapis_key = FALSE
    /\ rate_limit_semaphore = [id |-> 1, value |-> InitRateLimit]
    /\ requests = <<>>
    /\ calls = EmptyBag

StubInit == ScanInit /\ ApiIdle /\ UnitIdle

StubSpec == StubInit /\ [][StubNext]_vars

\* ------------------------------------------- outbound calls and their gates
\* calls is the bag of outbound calls under way. A call of the scanner's
\* BlockchainAPI belongs to a parallel request req and passes the provider's
\* semaphore, then the rate_limit_semaphore object it found on entering
\* make_request. The stay in make_request (up to three GETs) is the phase
\* "in_flight". The routes /current-height and /balance/check build a
\* BlockchainAPI of their own for each request.
NoSemaphore == [id |-> 0, value |-> 0]

\* the rate_limit_semaphore of a BlockchainAPI built for one request
OwnSemaphore == [id |-> 0, value |-> InitRateLimit]

\* a 200 response whose body is text that is not a number
Text == "text"

ScannerCall(req, provider) ==
    [api |-> "scanner", op |-> "parallel", req |-> req, provider |-> provider,
     pc |-> "provider_wait", sem |-> NoSemaphore, current_api |-> 0, left |-> 0]

OwnCall(op, provider, current_api, left) ==
    [api |-> "own", op |-> op, req |-> 0, provider |-> provider,
     pc |-> "in_flight", sem |-> OwnSemaphore, current_api |-> current_api, left |-> left]

\* number of calls of the bag that are in the set S of its elements
CountCalls(S) == BagCardinality([c \in S |-> calls[c]])

Move(c, d) == (calls (-) SetToBag({c})) (+) SetToBag({d})

\* permits taken of the scanner's semaphore of one provider, and of one
\* rate_limit_semaphore object
ProviderHolders(provider) ==
    CountCalls({c \in DOMAIN calls : /\ c.api = "scanner"
                                      /\ c.provider = provider
                                      /\ c.pc \in {"global_wait", "in_flight"}})

\* variant of GlobalHolders for a semaphore whose permits are never given back
GlobalHolders_Kept(sem) == sem.value

GlobalHolders(sem) ==
    CountCalls({c \in DOMAIN calls : c.api = "scanner" /\ c.sem = sem /\ c.pc = "in_flight"})

OwnRequests == CountCalls({c \in DOMAIN calls : c.api = "own"})

\* make_parallel_api_request starts: one try_api task per available provider
ParallelRequest ==
    /\ Cardinality(DOMAIN requests) < MaxOps
    /\ LET req == CHOOSE i \in 1..MaxOps : i \notin DOMAIN requests
           apis == get_available_apis(cryptoapis_key)
       IN /\ requests' = [i \in DOMAIN requests \cup {req} |->
                             IF i = req THEN [n_tasks |-> Len(apis), completed |-> <<>>]
                             ELSE requests[i]]
          /\ calls' = calls (+) SetToBag({ScannerCall(req, apis[i]) : i \in 1..Len(apis)})
    /\ UNCHANGED <<scan_vars, unit_vars, cryptoapis_key, rate_limit_semaphore>>

\* try_api enters `async with semaphore`, the endpoint function calls
\* make_request, which enters `async with self.rate_limit_semaphore`
EnterProvider(c) ==
    /\ c \in DOMAIN calls
    /\ c.pc = "provider_wait"
    /\ ProviderHolders(c.provider) < ProviderCap
    /\ LET sem == rate_limit_semaphore
       IN calls' = Move(c, [c EXCEPT !.sem = sem,
                                     !.pc = IF GlobalHolders(sem) < sem.value
                                            THEN "in_flight" ELSE "global_wait"])
    /\ UNCHANGED <<scan_vars, unit_vars, cryptoapis_key, rate_limit_semaphore, requests>>

\* a permit of the semaphore object the call waits for has become free
EnterGlobal(c) ==
    /\ c \in DOMAIN calls
    /\ c.pc = "global_wait"
    /\ GlobalHolders(c.sem) < c.sem.value
    /\ calls' = Move(c, [c EXCEPT !.pc = "in_flight"])
    /\ UNCHANGED <<scan_vars, unit_vars, cryptoapis_key, rate_limit_semaphore, requests>>

\* make_request of a scanner call returns result; the as_completed loop of its
\* parallel request takes the answer, and get_block_hash / get_block_transactions /
\* get_transaction returns when the loop returns or has seen every task
Answer(c, result) ==
    /\ c \in DOMAIN calls
    /\ c.api = "scanner"
    /\ c.pc = "in_flight"
    /\ LET answer == EndpointResult(result)
           completed == Append(requests[c.req].completed, answer)
           returns == answer # None /\ CancelRemaining(requests[c.req].n_tasks) = "cancelled"
           cancelled == {d \in DOMAIN calls : d.api = "scanner" /\ d.req = c.req}
       IN IF returns \/ Len(completed) = requests[c.req].n_tasks
          THEN /\ requests' = [i \in DOMAIN requests \ {c.req} |-> requests[i]]
               /\ calls' = [d \in DOMAIN calls \ cancelled |-> calls[d]]
               /\ ret' = [completed |-> completed,
                          result |-> IF returns THEN answer ELSE get_block_hash(completed)]
          ELSE /\ requests' = [requests EXCEPT ![c.req].completed = completed]
               /\ calls' = calls (-) SetToBag({c})
               /\ UNCHANGED ret
    /\ UNCHANGED <<scan_vars, args, cryptoapis_key, rate_limit_semaphore>>

\* GET /current-height: BlockchainAPI().get_block_height() calls make_request
\* itself, cryptoapis first if a key is configured
HeightRequest ==
    /\ OwnRequests < MaxOwn
    /\ calls' = calls (+) SetToBag({OwnCall("height",
                     IF cryptoapis_key THEN "cryptoapis" ELSE "blockstream", 0, 0)})
    /\ UNCHANGED <<scan_vars, unit_vars, cryptoapis_key, rate_limit_semaphore, requests>>

\* make_request returned to get_block_height: a dict from cryptoapis ends it, any
\* other result goes on to blockstream; int() of a text from blockstream raises
\* and the handler asks mempool; every other result ends the request
HeightResponse(c, result) ==
    /\ c \in DOMAIN calls
    /\ c.op = "height"
    /\ IF c.provider = "cryptoapis" /\ result # Data
       THEN /\ calls' = Move(c, [c EXCEPT !.provider = "blockstream"])
            /\ UNCHANGED response
       ELSE IF c.provider = "blockstream" /\ result = Text
       THEN /\ calls' = Move(c, [c EXCEPT !.provider = "mempool"])
            /\ UNCHANGED response
       ELSE /\ calls' = calls (-) SetToBag({c})
            /\ Respond(200)
    /\ UNCHANGED <<scan_states, tasks, batch_size, max_concurrent_blocks, unit_vars,
                   cryptoapis_key, rate_limit_semaphore, requests>>

\* get_next_api of a BlockchainAPI after current_api calls
NextApi(current_api) ==
    LET apis == get_available_apis(cryptoapis_key)
    IN apis[(current_api % Len(apis)) + 1]

\* POST /balance/check with n addresses: get_address_balance for the first one
BalanceRequest(n) ==
    /\ OwnRequests < MaxOwn
    /\ calls' = calls (+) SetToBag({OwnCall("balance", NextApi(0), 1, n - 1)})
    /\ UNCHANGED <<scan_vars, unit_vars, cryptoapis_key, rate_limit_semaphore, requests>>

\* make_request returned to get_address_balance: the loop of check_balances sleeps
BalanceResponse(c) ==
    /\ c \in DOMAIN calls
    /\ c.op = "balance"
    /\ c.pc = "in_flight"
    /\ calls' = Move(c, [c EXCEPT !.pc = "sleep"])
    /\ UNCHANGED <<scan_vars, unit_vars, cryptoapis_key, rate_limit_semaphore, requests>>

\* after the sleep: the next address, or the response
BalanceWake(c) ==
    /\ c \in DOMAIN calls
    /\ c.pc = "sleep"
    /\ IF c.left = 0
       THEN /\ calls' = calls (-) SetToBag({c})
            /\ Respond(200)
       ELSE /\ calls' = Move(c, [c EXCEPT !.pc = "in_flight",
                                          !.provider = NextApi(c.current_api),
                                          !.current_api = @ + 1, !.left = @ - 1])
            /\ UNCHANGED response
    /\ UNCHANGED <<scan_states, tasks, batch_size, max_concurrent_blocks, unit_vars,
                   cryptoapis_key, rate_limit_semaphore, requests>>

\* a scan is running; its tasks are represented by the parallel requests they make
ApiSpecInit ==
    /\ scan_states = [id \in {1} |-> [NewJob(id, 0, MaxBlock, {"legacy"}) EXCEPT !.status = "running"]]
    /\ tasks = <<>>
    /\ batch_size = InitBatchSize
    /\ max_concurrent_blocks = InitMaxConcurrentBlocks
    /\ response = 0
    /\ ApiInit
    /\ UnitIdle

ApiNext ==
    \/ ParallelRequest
    \/ \E c \in DOMAIN calls : EnterProvider(c)
    \/ \E c \in DOMAIN calls : EnterGlobal(c)
    \/ \E c \in DOMAIN calls, result \in {None, Empty, Data} : Answer(c, result)
    \/ HeightRequest
    \/ \E c \in DOMAIN calls, result \in {None, Text, Data} : HeightResponse(c, result)
    \/ \E n \in 1..MaxAddresses : BalanceRequest(n)
    \/ \E c \in DOMAIN calls : BalanceResponse(c)
    \/ \E c \in DOMAIN calls : BalanceWake(c)
    \/ \E b \in SmallBatchSizes, c \in ConcChoices, m \in RequestChoices :
          UpdatePerformanceConfig(b, c, m)

ApiSpec == ApiSpecInit /\ [][ApiNext]_vars

\* ------------------------------------------------------- the log buffer
\* The log buffer of one job with its entries kept (the specifications above keep
\* their number only). An entry is the ordinal of the add_log call that wrote it;
\* args counts the calls made for the job so far, ret is the log list of the
\* last progress response.

\* variant of add_log_entry that cuts the buffer from the wrong end
add_log_entry_KeepsOldest(logs, log_entry) ==
    LET appended == Append(logs, log_entry)
    IN IF Len(appended) > LogCapacity THEN SubSeq(appended, 1, LogCapacity) ELSE appended

\* logs.append(log_entry); if len(logs) > 200: logs = logs[-200:]
add_log_entry(logs, log_entry) ==
    LET appended == Append(logs, log_entry)
    IN IF Len(appended) > LogCapacity
       THEN SubSeq(appended, Len(appended) - LogCapacity + 1, Len(appended))
       ELSE appended

\* state["logs"][-50:]
RecentLogs(logs) ==
    IF Len(logs) > ProgressLogs THEN SubSeq(logs, Len(logs) - ProgressLogs + 1, Len(logs)) ELSE logs

LogInit ==
    /\ scan_states = [id \in {1} |-> [NewJob(id, 0, 0, {"legacy"}) EXCEPT !.logs = <<>>]]
    /\ tasks = <<>>
    /\ batch_size = InitBatchSize
    /\ max_concurrent_blocks = InitMaxConcurrentBlocks
    /\ response = 0
    /\ args = 0
    /\ ret = <<>>
    /\ ApiIdle

\* add_log(scan_id, message): nothing happens for an id that is not in the registry
AddLog(id) ==
    /\ args < MaxLogCalls
    /\ IF id \in DOMAIN scan_states
       THEN /\ scan_states' = [scan_states EXCEPT ![id].logs = add_log_entry(@, args + 1)]
            /\ args' = args + 1
       ELSE UNCHANGED <<scan_states, args>>
    /\ UNCHANGED <<tasks, batch_size, max_concurrent_blocks, response, ret, api_vars>>

\* get_scan_progress: the response carries the last 50 entries
ReadLogs(id) ==
    /\ Respond(IF id \in DOMAIN scan_states THEN 200 ELSE 404)
    /\ ret' = IF id \in DOMAIN scan_states THEN RecentLogs(scan_states[id].logs) ELSE ret
    /\ UNCHANGED <<scan_states, tasks, batch_size, max_concurrent_blocks, args, api_vars>>

LogNext ==
    \/ \E id \in ScanIds : AddLog(id)
    \/ \E id \in ScanIds : ReadLogs(id)

LogSpec == LogInit /\ [][LogNext]_vars

\* --------------------------------------------- recover_private_key alone
\* ret before the function under study has returned
Pending == <<"pending">>

\* hash arguments: digests as integers, or the message_hash strings of inputs
HashArgs ==
    {<<IntHash(h1), IntHash(h2)>> : h1 \in 0..MaxInput, h2 \in 0..MaxInput}
    \cup {<<MessageHash(x1, i1), MessageHash(x2, i2)>> :
              x1 \in Blocks, i1 \in 0..1, x2 \in Blocks, i2 \in 0..1}

RecoverInit ==
    /\ ScanInit
    /\ ApiIdle
    /\ args \in [r : 0..MaxInput, s1 : 0..MaxInput, s2 : 0..MaxInput, hashes : HashArgs]
    /\ ret = Pending

Recover ==
    /\ ret = Pending
    /\ ret' = recover_private_key(args.r, args.s1, args.s2, args.hashes[1], args.hashes[2])
    /\ UNCHANGED <<scan_vars, args, api_vars>>

RecoverNext == Recover

RecoverSpec == RecoverInit /\ [][RecoverNext]_vars

\* ------------------------------------------- find_reused_r_values alone
\* a signature record as extract_signatures makes it for input input_index of tx_id
SigRecord(tx_id, input_index, r) ==
    [tx_id |-> tx_id, input_index |-> input_index, r |-> r,
     s |-> Sign(Signer.d, Signer.k, Signer.r, SigHash(tx_id, input_index)),
     type |-> "legacy", message_hash |-> MessageHash(tx_id, input_index)]

\* the lists signatures_by_r can hold under r: 1..MaxGroup records, repeats included
GroupChoices(r) ==
    LET records == {SigRecord(x, i, r) : x \in Blocks, i \in 0..1}
    IN {[r |-> r, sigs |-> sigs] : sigs \in UNION {[1..len -> records] : len \in 1..MaxGroup}}

CorrelateInit ==
    /\ scan_states = [id \in {1} |-> [NewJob(id, 0, MaxBlock, {"legacy"}) EXCEPT !.status = "running"]]
    /\ tasks = <<>>
    /\ batch_size = InitBatchSize
    /\ max_concurrent_blocks = InitMaxConcurrentBlocks
    /\ response = 0
    /\ ApiIdle
    /\ \/ \E g \in GroupChoices(Signer.r) : args = <<g>>
       \/ \E g \in GroupChoices(Signer.r), h \in GroupChoices(Signer.r + 1) \cup GroupChoices(0) :
             args = <<g, h>>
    /\ ret = Pending

\* find_reused_r_values(scan_id, signatures_by_r) for the job, with the recovery
\* calls it makes
Correlate ==
    /\ ret = Pending
    /\ scan_states' = find_reused_r_values(scan_states, 1, args)
    /\ ret' = AttemptsFrom(args, 1)
    /\ UNCHANGED <<tasks, batch_size, max_concurrent_blocks, response, args, api_vars>>

CorrelateNext == Correlate

CorrelateSpec == CorrelateInit /\ [][CorrelateNext]_vars

\* ---------------------------------------- parse_der_signature_bytes alone
\* bytes are sequences of integers 0..255

\* bytes.hex(): two hex digits per byte
RECURSIVE BytesHex(_)
BytesHex(bytes) ==
    IF bytes = <<>> THEN <<>>
    ELSE <<HexDigits[(Head(bytes) \div 16) + 1], HexDigits[(Head(bytes) % 16) + 1]>>
         \o BytesHex(Tail(bytes))

\* the return value (None, None)
NoSig == <<>>

\* Python's der_bytes[a:b] for 0 <= a <= b <= len
Slice(bytes, a, b) == SubSeq(bytes, a + 1, b)

\* variant of parse_der_signature_bytes that does not test the tag of s
parse_der_signature_bytes_AnyTag(der_bytes) ==
    LET len == Len(der_bytes)
    IN IF len < 8 \/ der_bytes[1] # 48 THEN NoSig
       ELSE IF der_bytes[3] # 2 THEN NoSig
       ELSE LET r_len == der_bytes[4]
                pos == 4 + r_len
            IN IF pos > len THEN NoSig
               ELSE IF pos >= len THEN NoSig
               ELSE IF pos + 1 >= len THEN NoSig
               ELSE LET s_len == der_bytes[pos + 2]
                    IN IF pos + 2 + s_len > len THEN NoSig
                       ELSE <<BytesHex(Slice(der_bytes, 4, pos)),
                              BytesHex(Slice(der_bytes, pos + 2, pos + 2 + s_len))>>

\* parse_der_signature_bytes: the SEQUENCE length byte is skipped unread; an
\* index past the end raises IndexError, which is caught and answered (None, None)
parse_der_signature_bytes(der_bytes) ==
    LET len == Len(der_bytes)
    IN IF len < 8 \/ der_bytes[1] # 48 THEN NoSig
       ELSE IF der_bytes[3] # 2 THEN NoSig
       ELSE LET r_len == der_bytes[4]
                pos == 4 + r_len
            IN IF pos > len THEN NoSig
               ELSE IF pos >= len \/ der_bytes[pos + 1] # 2 THEN NoSig
               ELSE IF pos + 1 >= len THEN NoSig
               ELSE LET s_len == der_bytes[pos + 2]
                    IN IF pos + 2 + s_len > len THEN NoSig
                       ELSE <<BytesHex(Slice(der_bytes, 4, pos)),
                              BytesHex(Slice(der_bytes, pos + 2, pos + 2 + s_len))>>

\* the minimal DER encoding of (r_bytes, s_bytes): SEQUENCE { INTEGER, INTEGER },
\* an INTEGER whose first byte is >= 0x80 gets 0x00 in front
DerInteger(bytes) == LET v == IF bytes[1] >= 128 THEN <<0>> \o bytes ELSE bytes
                     IN <<2, Len(v)>> \o v

EncodeDer(r_bytes, s_bytes) ==
    LET body == DerInteger(r_bytes) \o DerInteger(s_bytes)
    IN <<48, Len(body)>> \o body

ByteChoices == {0, 1, 2, 48, 127, 128, 255}

ByteStrings == UNION {[1..len -> ByteChoices] : len \in 1..MaxBytes}

DerInit ==
    /\ ScanInit
    /\ ApiIdle
    /\ \E r_bytes \in ByteStrings, s_bytes \in ByteStrings :
          args = [r_bytes |-> r_bytes, s_bytes |-> s_bytes,
                  der_bytes |-> EncodeDer(r_bytes, s_bytes)]
    /\ ret = Pending

ParseDer ==
    /\ ret = Pending
    /\ ret' = parse_der_signature_bytes(args.der_bytes)
    /\ UNCHANGED <<scan_vars, args, api_vars>>

DerNext == ParseDer

DerSpec == DerInit /\ [][DerNext]_vars

\* the parser on any buffer of 7 to MaxBuffer bytes: tags, small lengths and a
\* length that no buffer holds
BufferBytes == {0, 1, 2, 48}

BufferInit ==
    /\ ScanInit
    /\ ApiIdle
    /\ \E len \in 7..MaxBuffer : \E der_bytes \in [1..len -> BufferBytes] :
          args = [der_bytes |-> der_bytes]
    /\ ret = Pending

BufferSpec == BufferInit /\ [][DerNext]_vars

\* ------------------------------- one operation of BlockchainAPI by itself
\* answers[provider] is what make_request returns for the provider's URL: None
\* (every attempt failed), an empty body, a text that is no number, or the data
\* asked for. An operation returns [result, asked]: its value and the providers
\* it called, in order; Empty stands for the values 0, "", [], {} and the zero
\* BalanceCheck.
Raised == "exception"

NotCalled == [result |-> "pending", asked |-> <<>>]

\* variant of get_address_balance without the try and the type test
get_address_balance_Unchecked(key, answers) ==
    LET api == get_available_apis(key)[1]
    IN [result |-> IF answers[api] = Data THEN Data ELSE Raised, asked |-> <<api>>]

\* get_address_balance on a BlockchainAPI that made no call yet: the balance
\* from the provider get_next_api names, or the zero BalanceCheck
get_address_balance(key, answers) ==
    LET api == get_available_apis(key)[1]
    IN [result |-> IF answers[api] = Data THEN Data ELSE Empty, asked |-> <<api>>]

\* get_block_height: cryptoapis if a key is configured, then blockstream; mempool
\* is asked in the except branch of the blockstream attempt only, which is
\* entered when int(result) raises
get_block_height(key, answers) ==
    LET first == IF key THEN <<"cryptoapis">> ELSE <<>>
    IN IF key /\ answers["cryptoapis"] = Data
       THEN [result |-> Data, asked |-> first]
       ELSE IF answers["blockstream"] = Data
       THEN [result |-> Data, asked |-> first \o <<"blockstream">>]
       ELSE IF answers["blockstream"] = Text
       THEN [result |-> IF answers["mempool"] = Data THEN Data ELSE Empty,
             asked |-> first \o <<"blockstream", "mempool">>]
       ELSE [result |-> Empty, asked |-> first \o <<"blockstream">>]

\* the parallel fetch with the providers' calls completing in the order of apis
get_block_hash_from(key, answers) ==
    LET apis == get_available_apis(key)
    IN [result |-> get_block_hash([i \in 1..Len(apis) |-> EndpointResult(answers[apis[i]])]),
        asked |-> apis]

CallInit ==
    /\ ScanInit
    /\ ApiInit
    /\ args \in [op : {"height", "hash", "balance"},
                  answers : [{"blockstream", "mempool", "cryptoapis"} -> {None, Empty, Text, Data}]]
    /\ ret = NotCalled

Call ==
    /\ ret = NotCalled
    /\ ret' = CASE args.op = "height" -> get_block_height(cryptoapis_key, args.answers)
                 [] args.op = "hash" -> get_block_hash_from(cryptoapis_key, args.answers)
                 [] OTHER -> get_address_balance(cryptoapis_key, args.answers)
    /\ UNCHANGED <<scan_vars, args, api_vars>>

CallNext == Call

CallSpec == CallInit /\ [][CallNext]_vars

\* ------------------------------------------------- make_request by itself
\* args is the frame of one call: its retries argument, the loop variable
\* attempt, its position, the outcomes of the GETs made so far and the seconds of
\* the last sleep. An outcome is "200" (the body was read), "429", "status" (any
\* other status) or "exception" (the GET or the reading of the body raised).
Outcomes == {"200", "429", "status", "exception"}

\* the slot of the rate_limit_semaphore the call holds inside `async with`
Slot == [ScannerCall(0, "blockstream") EXCEPT !.pc = "in_flight", !.sem = rate_limit_semaphore]

\* variant of OnAttempt that gives up at the first 429
OnAttempt_NoRetryOn429(frame, outcome) ==
    [frame EXCEPT !.outcomes = Append(@, outcome),
                  !.pc = "return",
                  !.result = IF outcome = "200" THEN Data ELSE None]

\* one pass of the body of `for attempt in range(retries)`
OnAttempt(frame, outcome) ==
    LET last == frame.attempt + 1 >= frame.retries
        made == [frame EXCEPT !.outcomes = Append(@, outcome)]
    IN CASE outcome = "200" -> [made EXCEPT !.pc = "return", !.result = Data]
         [] outcome = "429" -> [made EXCEPT !.pc = "sleep", !.delay = 2 ^ frame.attempt]
         [] outcome = "status" ->
                IF last THEN [made EXCEPT !.pc = "return", !.result = None]
                ELSE [made EXCEPT !.attempt = @ + 1]
         [] OTHER ->
                IF last THEN [made EXCEPT !.pc = "return", !.result = None]
                ELSE [made EXCEPT !.pc = "sleep", !.delay = 1]

RequestInit ==
    /\ ScanInit
    /\ ApiIdle
    /\ \E retries \in 1..Retries :
          args = [retries |-> retries, attempt |-> 0, pc |-> "enter", outcomes |-> <<>>,
                  delay |-> 0, result |-> None]
    /\ ret = "pending"

\* `async with self.rate_limit_semaphore`: a permit is free
EnterRequest ==
    /\ args.pc = "enter"
    /\ GlobalHolders(rate_limit_semaphore) < rate_limit_semaphore.value
    /\ calls' = calls (+) SetToBag({Slot})
    /\ args' = [args EXCEPT !.pc = "get"]
    /\ UNCHANGED <<scan_vars, ret, cryptoapis_key, rate_limit_semaphore, requests>>

\* session.get has ended with outcome
Attempt(outcome) ==
    /\ args.pc = "get"
    /\ args' = OnAttempt(args, outcome)
    /\ UNCHANGED <<scan_vars, ret, api_vars>>

\* the sleep after a 429 or an exception is over: next attempt or end of the loop
WakeRequest ==
    /\ args.pc = "sleep"
    /\ args' = IF args.attempt + 1 >= args.retries
               THEN [args EXCEPT !.pc = "return", !.result = None]
               ELSE [args EXCEPT !.pc = "get", !.attempt = @ + 1]
    /\ UNCHANGED <<scan_vars, ret, api_vars>>

\* the return statement leaves the `async with`: the permit is given back
ReturnRequest ==
    /\ args.pc = "return"
    /\ args' = [args EXCEPT !.pc = "done"]
    /\ ret' = args.result
    /\ calls' = calls (-) SetToBag({Slot})
    /\ UNCHANGED <<scan_vars, cryptoapis_key, rate_limit_semaphore, requests>>

RequestNext ==
    \/ EnterRequest
    \/ \E outcome \in Outcomes : Attempt(outcome)
    \/ WakeRequest
    \/ ReturnRequest

RequestSpec == RequestInit /\ [][RequestNext]_vars

\* -------------------------------------------------- one scan of a range
\* One scan by itself: start_scan has answered for the range 0..MaxRange, its
\* background task is about to run, and the clients that remain send stop
\* requests and performance configurations.
RangeInit ==
    /\ scan_states = <<NewJob(1, 0, MaxRange, {"legacy"})>>
    /\ tasks = <<NewTask(1, 0, MaxRange, {"legacy"})>>
    /\ batch_size \in BatchSizes
    /\ max_concurrent_blocks = InitMaxConcurrentBlocks
    /\ response = 200
    /\ ApiInit
    /\ UnitIdle

RangeNext ==
    \/ StopScan(1)
    \/ \E b \in BatchSizes, c \in ConcChoices, m \in RequestChoices :
          UpdatePerformanceConfig(b, c, m)
    \/ ScanBegin(1)
    \/ ScanWake(1)
    \/ BatchJoin(1)
    \/ \E b \in 0..MaxRange : BlockStart(1, b)
    \/ \E b \in 0..MaxRange, answers \in ProviderAnswers(cryptoapis_key) :
          BlockHash(1, b, get_block_hash(answers) # Empty)

RangeSpec == RangeInit /\ [][RangeNext]_vars

\* ------------------------------------------ one scan with failing units
\* One scan against a provider layer stubbed so that a fetch may also raise:
\* the except clauses of process_single_block and process_single_transaction.

\* process_single_block: an exception raised while the hash or the txid list
\* is fetched is caught, logged to the scan and answered with no signatures
BlockError(t, b) ==
    /\ tasks[t].pc = "gather"
    /\ b \in DOMAIN tasks[t].blk
    /\ tasks[t].blk[b].pc \in {"hash", "txids"}
    /\ scan_states' = add_log(scan_states, tasks[t].scan_id)
    /\ tasks' = [tasks EXCEPT ![t].blk[b] = BlockDone(@, <<>>)]
    /\ UNCHANGED <<batch_size, max_concurrent_blocks, response, unit_vars, api_vars>>

\* process_single_transaction: an exception raised by the fetch or by the
\* extraction is caught, written to the process logger and answered with []
TxError(t, b, x) ==
    /\ tasks[t].pc = "gather"
    /\ b \in DOMAIN tasks[t].blk
    /\ tasks[t].blk[b].pc = "txs"
    /\ x \in tasks[t].blk[b].pending
    /\ tasks' = [tasks EXCEPT ![t].blk[b].pending = @ \ {x},
                              ![t].blk[b].got = [y \in DOMAIN @ \cup {x} |->
                                                   IF y = x THEN <<>> ELSE @[y]]]
    /\ UNCHANGED <<scan_states, batch_size, max_concurrent_blocks, response, unit_vars, api_vars>>

FaultInit ==
    /\ scan_states = <<NewJob(1, 0, MaxBlock, {"legacy"})>>
    /\ tasks = <<NewTask(1, 0, MaxBlock, {"legacy"})>>
    /\ batch_size \in BatchSizes
    /\ max_concurrent_blocks = InitMaxConcurrentBlocks
    /\ response = 200
    /\ ApiIdle
    /\ UnitIdle

FaultNext ==
    \/ ScanBegin(1)
    \/ ScanWake(1)
    \/ BatchJoin(1)
    \/ \E b \in Blocks : BlockStart(1, b)
    \/ \E b \in Blocks, ok \in BOOLEAN : BlockHash(1, b, ok)
    \/ \E b \in Blocks, ok \in BOOLEAN : BlockTxIds(1, b, ok)
    \/ \E b \in Blocks, x \in Blocks, ok \in BOOLEAN : TxDone(1, b, x, ok)
    \/ \E b \in Blocks : BlockFinish(1, b)
    \/ \E b \in Blocks : BlockError(1, b)
    \/ \E b \in Blocks, x \in Blocks : TxError(1, b, x)

FaultSpec == FaultInit /\ [][FaultNext]_vars

\* ------------------------------------- extraction from the bytes of an input
\* bytes.fromhex(hex) for a string of hex digits of even length
RECURSIVE FromHex(_)
FromHex(hex) ==
    IF Len(hex) < 2 THEN <<>>
    ELSE LET digit(c) == CHOOSE v \in 0..15 : HexDigits[v + 1] = c
         IN <<16 * digit(hex[1]) + digit(hex[2])>> \o FromHex(SubSeq(hex, 3, Len(hex)))

\* the dict of a signature record; r and s are hex strings
SignatureRecord(tx_id, input_index, r, s, type) ==
    [tx_id |-> tx_id, input_index |-> input_index, r |-> r, s |-> s, type |-> type,
     message_hash |-> MessageHash(tx_id, input_index)]

\* `if r and s` on the tuple parse_der_signature_bytes returned
Truthy(sig) == sig # NoSig /\ sig[1] # <<>> /\ sig[2] # <<>>

\* the loop of parse_legacy_signature from offset i (0-based) on; the result is
\* the list of the records returned: none (None) or one
RECURSIVE LegacyFrom(_, _, _, _)
LegacyFrom(script_bytes, i, tx_id, input_index) ==
    IF i >= Len(script_bytes) - 8 THEN <<>>
    ELSE LET der_length == script_bytes[i + 2]
             fits == i + 2 + der_length <= Len(script_bytes)
             sig == IF script_bytes[i + 1] = 48 /\ fits
                    THEN parse_der_signature_bytes(Slice(script_bytes, i, i + 2 + der_length))
                    ELSE NoSig
         IN IF Truthy(sig)
            THEN <<SignatureRecord(tx_id, input_index, sig[1], sig[2], "legacy")>>
            ELSE LegacyFrom(script_bytes, i + 1, tx_id, input_index)

\* parse_legacy_signature; fromhex raises on an odd number of digits, which is
\* caught and answered None
parse_legacy_signature(script_sig_hex, tx_id, input_index) ==
    IF script_sig_hex = <<>> \/ Len(script_sig_hex) < 20 THEN <<>>
    ELSE IF Len(script_sig_hex) % 2 = 1 THEN <<>>
    ELSE LegacyFrom(FromHex(script_sig_hex), 0, tx_id, input_index)

\* variant of parse_witness_signature that looks at the last item of the stack
parse_witness_signature_Last(witness, tx_id, input_index) ==
    IF Len(witness) < 2 THEN <<>>
    ELSE LET sig_hex == witness[Len(witness)]
         IN IF sig_hex = <<>> \/ Len(sig_hex) < 20 THEN <<>>
            ELSE IF Len(sig_hex) % 2 = 1 THEN <<>>
            ELSE LET sig_bytes == FromHex(sig_hex)
                     sig == IF Len(sig_bytes) > 8 /\ sig_bytes[1] = 48
                            THEN parse_der_signature_bytes(Slice(sig_bytes, 0, Len(sig_bytes) - 1))
                            ELSE NoSig
                 IN IF Truthy(sig)
                    THEN <<SignatureRecord(tx_id, input_index, sig[1], sig[2], "segwit")>>
                    ELSE <<>>

\* parse_witness_signature
parse_witness_signature(witness, tx_id, input_index) ==
    IF Len(witness) < 2 THEN <<>>
    ELSE LET sig_hex == witness[1]
         IN IF sig_hex = <<>> \/ Len(sig_hex) < 20 THEN <<>>
            ELSE IF Len(sig_hex) % 2 = 1 THEN <<>>
            ELSE LET sig_bytes == FromHex(sig_hex)
                     sig == IF Len(sig_bytes) > 8 /\ sig_bytes[1] = 48
                            THEN parse_der_signature_bytes(Slice(sig_bytes, 0, Len(sig_bytes) - 1))
                            ELSE NoSig
                 IN IF Truthy(sig)
                    THEN <<SignatureRecord(tx_id, input_index, sig[1], sig[2], "segwit")>>
                    ELSE <<>>

\* variant of ExtractVin that takes the legacy path whatever the address types
ExtractVin_Unscoped(vin, address_types, tx_id, i) ==
    (IF vin.scriptsig # <<>>
     THEN parse_legacy_signature(vin.scriptsig, tx_id, i) ELSE <<>>)
    \o (IF /\ Len(vin.witness) >= 2
           /\ ("segwit" \in address_types \/ "taproot" \in address_types)
        THEN parse_witness_signature(vin.witness, tx_id, i) ELSE <<>>)

\* extract_signatures, the body of the loop over vin: input i of transaction tx_id
ExtractVin(vin, address_types, tx_id, i) ==
    (IF vin.scriptsig # <<>> /\ "legacy" \in address_types
     THEN parse_legacy_signature(vin.scriptsig, tx_id, i) ELSE <<>>)
    \o (IF /\ Len(vin.witness) >= 2
           /\ ("segwit" \in address_types \/ "taproot" \in address_types)
        THEN parse_witness_signature(vin.witness, tx_id, i) ELSE <<>>)

\* extract_signatures on the transaction as the provider returned it
RECURSIVE ExtractFromVin(_, _, _)
ExtractFromVin(tx_data, address_types, i) ==
    IF i >= Len(tx_data.vin) THEN <<>>
    ELSE ExtractVin(tx_data.vin[i + 1], address_types, tx_data.txid, i)
         \o ExtractFromVin(tx_data, address_types, i + 1)

\* an 8-byte DER signature with r and s of one byte, the same with a wrong
\* INTEGER tag, and one whose r is empty
Der8(r, s) == <<48, 6, 2, 1, r, 2, 1, s>>
Candidates == {Der8(1, 2), <<48, 6, 3, 1, 1, 2, 1, 2>>, <<48, 6, 2, 0, 2, 1, 2, 1>>}

\* a run of n push-data bytes (a public key, say)
Padding(n) == [k \in 1..n |-> 9]

\* script-signatures: a candidate after zero to two bytes, one of which may be
\* 0x30, and before the sighash byte and the bytes that follow it; and a
\* candidate that ends the script
ScriptChoices ==
    {pre \o cand \o suf :
        pre \in {<<>>, <<9>>, <<48>>, <<48, 200>>, <<9, 9>>},
        cand \in Candidates,
        suf \in {<<>>, <<1>>, <<1, 9>>, <<1>> \o Padding(MaxPadding)}}
    \cup {Padding(MaxPadding + 1) \o cand : cand \in Candidates}

\* witness stacks: none, one item, or a signature item and a public key
WitnessItems == {cand \o suf : cand \in Candidates, suf \in {<<1>>, <<9, 1>>}}
                \cup {<<9>> \o Der8(1, 2) \o <<1>>}
WitnessChoices ==
    {<<>>} \cup {<<BytesHex(item)>> : item \in WitnessItems}
           \cup {<<BytesHex(item), BytesHex(Padding(2))>> : item \in WitnessItems}
           \cup {<<BytesHex(Padding(2)), BytesHex(item)>> : item \in {Der8(1, 2) \o <<9, 1>>}}

\* extract_signatures has not returned yet
Unextracted == [returned |-> FALSE, signatures |-> <<>>]

\* a second input, with a signature in its script-signature and one in its witness
OtherVin ==
    [scriptsig |-> BytesHex(<<9>> \o Der8(3, 4) \o <<1, 9>>),
     witness |-> <<BytesHex(Der8(5, 6) \o <<9, 1>>), BytesHex(Padding(2))>>]

ExtractInit ==
    /\ ScanInit
    /\ ApiIdle
    /\ \E script \in ScriptChoices \cup {<<>>}, witness \in WitnessChoices,
          ty \in SUBSET {"legacy", "segwit", "taproot"},
          tx_id \in 1..MaxIds, others \in {<<>>, <<OtherVin>>} :
          args = [tx_data |-> [txid |-> tx_id,
                               vin |-> <<[scriptsig |-> BytesHex(script), witness |-> witness]>>
                                       \o others],
                  address_types |-> ty]
    /\ ret = Unextracted

Extract ==
    /\ ~ret.returned
    /\ ret' = [returned |-> TRUE,
               signatures |-> ExtractFromVin(args.tx_data, args.address_types, 0)]
    /\ UNCHANGED <<scan_vars, args, api_vars>>

ExtractNext == Extract

ExtractSpec == ExtractInit /\ [][ExtractNext]_vars

\* ------------------------------------- scans and their gates, with fairness
\* Two accepted scans, one over two blocks that a client may stop and one over
\* a single block, whose block tasks fetch through the gates: a block task
\* past the batch semaphore asks for the block hash with one call per provider,
\* each call takes the provider's semaphore and then the global one. The hash
\* fetch returns "" for every answer (CancelRemaining), so a block task ends
\* with it.
ReqOf(t, b) == (t - 1) * (MaxBlock + 1) + b + 1

\* scan_blocks starts, whatever the number of scans already in their loop
LiveBegin(t) ==
    /\ tasks[t].pc = "pending"
    /\ LET tk == tasks[t]
           ss1 == [scan_states EXCEPT ![tk.scan_id].status = "running",
                                      ![tk.scan_id].current_block = tk.start_block,
                                      ![tk.scan_id].total_blocks = tk.end_block - tk.start_block + 1]
           res == LoopIteration(ss1, [tk EXCEPT !.step = batch_size], tk.start_block)
       IN /\ scan_states' = res.ss
          /\ tasks' = [tasks EXCEPT ![t] = res.tk]
    /\ UNCHANGED <<batch_size, max_concurrent_blocks, response, unit_vars, api_vars>>

\* process_single_block enters the batch semaphore, logs, and get_block_hash
\* starts make_parallel_api_request: one try_api per available provider
LiveBlockStart(t, b) ==
    /\ tasks[t].pc = "gather"
    /\ b \in DOMAIN tasks[t].blk
    /\ tasks[t].blk[b].pc = "wait"
    /\ Cardinality(ActiveBlocks(tasks[t])) < tasks[t].sem
    /\ scan_states' = add_log(scan_states, tasks[t].scan_id)
    /\ tasks' = [tasks EXCEPT ![t].blk[b].pc = "hash", ![t].fetched = @ \cup {b}]
    /\ LET req == ReqOf(t, b)
           apis == get_available_apis(cryptoapis_key)
       IN /\ requests' = [i \in DOMAIN requests \cup {req} |->
                             IF i = req THEN [n_tasks |-> Len(apis), completed |-> <<>>]
                             ELSE requests[i]]
          /\ calls' = calls (+) SetToBag({ScannerCall(req, apis[i]) : i \in 1..Len(apis)})
    /\ UNCHANGED <<batch_size, max_concurrent_blocks, response, unit_vars,
                   cryptoapis_key, rate_limit_semaphore>>

\* make_request of a call of block b returns result to the as_completed loop;
\* when the loop ends get_block_hash returns to process_single_block
LiveAnswer(t, b, c, result) ==
    /\ c \in DOMAIN calls
    /\ c.api = "scanner"
    /\ c.req = ReqOf(t, b)
    /\ c.pc = "in_flight"
    /\ LET answer == EndpointResult(result)
           completed == Append(requests[c.req].completed, answer)
           returns == answer # None /\ CancelRemaining(requests[c.req].n_tasks) = "cancelled"
           cancelled == {d \in DOMAIN calls : d.api = "scanner" /\ d.req = c.req}
           block_hash == IF returns THEN answer ELSE get_block_hash(completed)
           res == OnBlockHash(scan_states, tasks[t], b, block_hash # Empty)
       IN IF returns \/ Len(completed) = requests[c.req].n_tasks
          THEN /\ requests' = [i \in DOMAIN requests \ {c.req} |-> requests[i]]
               /\ calls' = [d \in DOMAIN calls \ cancelled |-> calls[d]]
               /\ scan_states' = res.ss
               /\ tasks' = [tasks EXCEPT ![t] = res.tk]
          ELSE /\ requests' = [requests EXCEPT ![c.req].completed = completed]
               /\ calls' = calls (-) SetToBag({c})
               /\ UNCHANGED <<scan_states, tasks>>
    /\ UNCHANGED <<batch_size, max_concurrent_blocks, response, unit_vars,
                   cryptoapis_key, rate_limit_semaphore>>

LiveInit ==
    /\ scan_states = [id \in 1..2 |->
                         NewJob(id, 0, IF id = 1 THEN MaxBlock ELSE 0, {"legacy"})]
    /\ tasks = [t \in 1..2 |-> NewTask(t, 0, IF t = 1 THEN MaxBlock ELSE 0, {"legacy"})]
    /\ batch_size = InitBatchSize
    /\ max_concurrent_blocks \in ConcChoices \cup {InitMaxConcurrentBlocks}
    /\ response = 200
    /\ ApiIdle
    /\ UnitIdle

\* the steps of the scans: the event loop runs every task that is ready and
\* every network call returns
LiveSteps ==
    \/ \E t \in TaskIds : LiveBegin(t)
    \/ \E t \in TaskIds : ScanWake(t)
    \/ \E t \in TaskIds : BatchJoin(t)
    \/ \E t \in TaskIds, b \in Blocks : LiveBlockStart(t, b)
    \/ \E c \in DOMAIN calls : EnterProvider(c)
    \/ \E c \in DOMAIN calls : EnterGlobal(c)
    \/ \E t \in TaskIds, b \in Blocks, c \in DOMAIN calls, result \in {None, Empty, Data} :
          LiveAnswer(t, b, c, result)

LiveNext ==
    \/ LiveSteps
    \/ StopScan(1)
    \/ \E b \in SmallBatchSizes, c \in ConcChoices, m \in RequestChoices :
          UpdatePerformanceConfig(b, c, m)

LiveSpec == LiveInit /\ [][LiveNext]_vars /\ WF_vars(LiveSteps)

\* =================================================================== claims
JobIds == DOMAIN scan_states

Finishing(t) == tasks[t].pc # "done" /\ tasks'[t].pc = "done"

\* the step is a start_scan request carrying this scan id
StartsScan(id) ==
    \E s \in Blocks, e \in Blocks, ty \in AddressTypeChoices : StartScan(id, s, e, ty)

\* C1: once a job's status is Completed or Failed it never changes again,
\* whatever requests arrive afterwards.
C1_TerminalStatus ==
    [][\A id \in JobIds :
          (scan_states[id].status \in {"completed", "failed"} /\ ~StartsScan(id))
          => scan_states'[id].status = scan_states[id].status]_vars

\* C2: a scan for which a stop was accepted while it was Running has status
\* Stopped when its background task ends.
C2_StoppedWhenTaskEnds ==
    [][\A t \in DOMAIN tasks :
          Finishing(t) /\ tasks[t].stop_end # {}
          => scan_states'[tasks[t].scan_id].status = "stopped"]_vars

\* C3: after a stop accepted while the scan was Running, no block beyond the
\* batch that was current at that moment is ever fetched.
C3_NoBatchAfterStop ==
    \A t \in DOMAIN tasks :
        \A e \in tasks[t].stop_end : \A b \in tasks[t].fetched : b <= e

\* the scan id was given to one start_scan request only
StartedOnce(id) == Cardinality({t \in DOMAIN tasks : tasks[t].scan_id = id}) = 1

\* C4: whenever a job is Completed, the whole range was processed:
\* blocks_scanned = total_blocks and progress_percentage = 100 (stated for the
\* jobs whose id was started once).
C4_CompletedMeansAll ==
    \A id \in JobIds :
        (scan_states[id].status = "completed" /\ StartedOnce(id))
        => /\ scan_states[id].blocks_scanned = scan_states[id].total_blocks
           /\ scan_states[id].progress_percentage = <<100, 1>>

\* C5: a failed hash fetch, txid fetch or transaction fetch ends its unit with zero
\* signatures and leaves the batch loop running; no job ever becomes Failed; a
\* task that ends without having seen a stop has gone through every batch of its
\* range and leaves the job Completed.
C5_UnitFailuresAbsorbed ==
    [][/\ \A id \in DOMAIN scan_states' : scan_states'[id].status # "failed"
       /\ \A t \in DOMAIN tasks : \A b \in DOMAIN tasks[t].blk :
             (BlockHash(t, b, FALSE) \/ BlockTxIds(t, b, FALSE))
             => /\ tasks'[t].pc = "gather"
                /\ tasks'[t].blk[b].pc = "done"
                /\ tasks'[t].blk[b].signatures = <<>>
                /\ scan_states'[tasks[t].scan_id].status = scan_states[tasks[t].scan_id].status
       /\ \A t \in DOMAIN tasks : \A b \in DOMAIN tasks[t].blk : \A x \in tasks[t].blk[b].pending :
             TxDone(t, b, x, FALSE)
             => /\ tasks'[t].pc = "gather"
                /\ tasks'[t].blk[b].got[x] = <<>>
       /\ \A t \in DOMAIN tasks :
             Finishing(t) /\ scan_states[tasks[t].scan_id].status # "stopped"
             => /\ tasks[t].batch_start + tasks[t].step > tasks[t].end_block
                /\ scan_states'[tasks[t].scan_id].status = "completed"]_vars

\* a job that ended Completed over its whole range although a unit of it failed:
\* it holds fewer signatures than the chain has in that range
RangeSignatures(id) ==
    Cardinality({b \in Blocks :
        /\ b >= scan_states[id].config.start_block
        /\ b <= scan_states[id].config.end_block
        /\ ChainTxIds(b) # <<>>
        /\ extract_signatures(b, scan_states[id].config.address_types) # <<>>})

C5_Witness ==
    \E id \in JobIds :
        /\ scan_states[id].status = "completed"
        /\ scan_states[id].blocks_scanned = scan_states[id].total_blocks
        /\ scan_states[id].signatures_found < RangeSignatures(id)

\* C6: start_scan with end_block < start_block or no address type fails and
\* changes neither the registry nor the set of background tasks; with
\* start_block = end_block it is accepted and the new job has total_blocks = 1.
C6_InvalidStartRejected ==
    [][\A id \in ScanIds, s \in Blocks, e \in Blocks, ty \in AddressTypeChoices :
          /\ ((e < s \/ ty = {}) /\ StartScan(id, s, e, ty))
                => /\ response' = 500
                   /\ scan_states' = scan_states
                   /\ tasks' = tasks
          /\ (e = s /\ ty # {} /\ StartScan(id, s, e, ty))
                => /\ response' = 200
                   /\ id \in DOMAIN scan_states'
                   /\ scan_states'[id].status = "initializing"
                   /\ scan_states'[id].total_blocks = 1
                   /\ Len(tasks') = Len(tasks) + 1]_vars

C6_Witness == response = 500 /\ JobIds # {} /\ \E t \in DOMAIN tasks : tasks[t].pc = "gather"

\* C7: progress, results and stop requests for an id that is not in the
\* registry answer 404 and leave every job and every task as it was.
C7_UnknownIdNotFound ==
    [][\A id \in ScanIds :
          (id \notin JobIds /\ (GetScanProgress(id) \/ GetScanResults(id) \/ StopScan(id)))
          => /\ response' = 404
             /\ scan_states' = scan_states
             /\ tasks' = tasks]_vars

C7_Witness == response = 404 /\ JobIds # {} /\ JobIds # ScanIds

\* C8: a start_scan request never replaces or changes a job that is already
\* in the registry, also when it carries that job's scan id.
C8_StartLeavesJobsAlone ==
    [][\A id \in ScanIds, s \in Blocks, e \in Blocks, ty \in AddressTypeChoices :
          StartScan(id, s, e, ty)
          => \A j \in JobIds : scan_states'[j] = scan_states[j]]_vars

\* C9: in every state, progress_percentage = blocks_scanned / total_blocks * 100
\* and total_blocks = end_block - start_block + 1.
C9_ProgressDerived ==
    \A id \in JobIds :
        /\ scan_states[id].progress_percentage
             = Percentage(scan_states[id].blocks_scanned, scan_states[id].total_blocks)
        /\ scan_states[id].total_blocks
             = scan_states[id].config.end_block - scan_states[id].config.start_block + 1

\* C10: current_block and blocks_scanned of a job never decrease from one
\* state to the next (a start_scan request that replaces the job apart).
C10_CountersMonotone ==
    [][\A id \in JobIds : ~StartsScan(id) =>
          /\ scan_states'[id].current_block >= scan_states[id].current_block
          /\ scan_states'[id].blocks_scanned >= scan_states[id].blocks_scanned]_vars

\* C11: after any number of add_log calls for a job its buffer holds at most 200
\* entries, and they are the most recently appended ones in the order they
\* were appended (the oldest are the ones dropped).
C11_LogsKeepNewest ==
    \A id \in JobIds :
        LET logs == scan_states[id].logs
        IN /\ Len(logs) <= LogCapacity
           /\ Len(logs) = Min(args, LogCapacity)
           /\ \A i \in 1..Len(logs) : logs[i] = args - Len(logs) + i

C11_Witness ==
    \E id \in JobIds :
        /\ args > LogCapacity + 1
        /\ Len(scan_states[id].logs) = LogCapacity
        /\ scan_states[id].logs[1] = args - LogCapacity + 1
        /\ Len(ret) = ProgressLogs

\* the hash arguments are integer digests different mod n, and r is not 0 mod n
DistinctDigests ==
    /\ ~IsStr(args.hashes[1])
    /\ ~IsStr(args.hashes[2])
    /\ args.r % CurveOrder # 0
    /\ (args.hashes[1].int - args.hashes[2].int) % CurveOrder # 0

\* the arguments are two signatures made with key d and the nonce of inverse
\* k_inv over the two digests
SignedBy(d, k_inv) ==
    /\ args.s1 = SignWith(k_inv, d, args.r, args.hashes[1].int)
    /\ args.s2 = SignWith(k_inv, d, args.r, args.hashes[2].int)

\* C12: for every key d and nonce k in 1..n-1, every r not 0 mod n and digests
\* h1, h2 different mod n, with s_i = k^-1 * (h_i + r*d) mod n,
\* recover_private_key(r, s1, s2, h1, h2) returns d as 64 hex digits.
C12_RecoversSigningKey ==
    (ret # Pending /\ DistinctDigests) =>
        \A k \in 1..(CurveOrder - 1) :
            LET k_inv == Inverse(k)
            IN \A d \in 1..(CurveOrder - 1) :
                  SignedBy(d, k_inv) => ret = zfill(Hex(d), KeyWidth)

C12_Witness ==
    /\ ret \notin {Pending, NoKey}
    /\ DistinctDigests
    /\ args.hashes[1].int > CurveOrder
    /\ \E d \in 1..(CurveOrder - 1), k \in 1..(CurveOrder - 1) :
          d # k /\ SignedBy(d, Inverse(k))

\* the two hash arguments are the same digest mod n
SameDigest ==
    IF IsStr(args.hashes[1])
    THEN Sha256ModN(args.hashes[1]) = Sha256ModN(args.hashes[2])
    ELSE (args.hashes[1].int - args.hashes[2].int) % CurveOrder = 0

\* C13: when s1 = s2 mod n or h1 = h2 mod n, recover_private_key returns None,
\* never a key.
C13_DegenerateRejected ==
    ret # Pending =>
        (((args.s1 - args.s2) % CurveOrder = 0 \/ SameDigest) => ret = NoKey)

\* None came back because s1 = s2 mod n alone: different values of s, different
\* digests, r not 0
C13_Witness ==
    /\ ret = NoKey
    /\ args.s1 # args.s2
    /\ (args.s1 - args.s2) % CurveOrder = 0
    /\ ~SameDigest
    /\ args.r % CurveOrder # 0

\* C14: a scan of the single block 0, whose transaction has two legacy inputs
\* with the same r and different s and digests, that runs to its end without a
\* stop ends Completed with r_reuse_pairs = 1 and keys_recovered = 1, and the
\* recovered private key is the key that made the two signatures.
C14_EndToEndRecovery ==
    [][\A t \in DOMAIN tasks :
          LET id == tasks[t].scan_id
          IN (/\ Finishing(t)
              /\ StartedOnce(id)
              /\ scan_states[id].status = "running"
              /\ tasks[t].start_block = 0
              /\ tasks[t].end_block = 0
              /\ "legacy" \in tasks[t].address_types)
             => /\ scan_states'[id].status = "completed"
                /\ scan_states'[id].r_reuse_pairs = 1
                /\ scan_states'[id].keys_recovered = 1
                /\ Len(scan_states'[id].recovered_keys) = 1
                /\ scan_states'[id].recovered_keys[1].private_key
                     = zfill(Hex(Signer.d), KeyWidth)]_vars

\* C15: for non-empty r_bytes and s_bytes, parsing their minimal DER encoding
\* gives back the hex of r_bytes and the hex of s_bytes.
C15_DerRoundTrip ==
    ret # Pending => ret = <<BytesHex(args.r_bytes), BytesHex(args.s_bytes)>>

\* C16: two completed scans of the same block range with the same address types
\* hold the same signatures_found, r_reuse_pairs, keys_recovered and recovered
\* keys, in whatever order their block tasks and provider answers completed.
SameScan(id1, id2) ==
    /\ scan_states[id1].status = "completed"
    /\ scan_states[id2].status = "completed"
    /\ scan_states[id1].config.start_block = scan_states[id2].config.start_block
    /\ scan_states[id1].config.end_block = scan_states[id2].config.end_block
    /\ scan_states[id1].config.address_types = scan_states[id2].config.address_types

Occurrences(seq, e) == Cardinality({k \in DOMAIN seq : seq[k] = e})

DifferentInputs(group, i, j) ==
    /\ i < j
    /\ j <= Len(group.sigs)
    /\ \/ group.sigs[i].tx_id # group.sigs[j].tx_id
       \/ group.sigs[i].input_index # group.sigs[j].input_index

C17_AttemptsExactlyThePairs ==
    ret # Pending
    => /\ \A k \in DOMAIN ret :
             ret[k][1] \in DOMAIN args /\ ret[k][2] \in 1..MaxGroup /\ ret[k][3] \in 1..MaxGroup
       /\ \A group \in DOMAIN args, i \in 1..MaxGroup, j \in 1..MaxGroup :
             Occurrences(ret, <<group, i, j>>) =
                 IF DifferentInputs(args[group], i, j) THEN 1 ELSE 0

\* a pass over a group of three records, two of them of one input, and a group
\* of one record: two calls are made
C17_Witness ==
    /\ ret # Pending
    /\ Len(args) = 2
    /\ Len(args[1].sigs) = 3
    /\ Len(args[2].sigs) = 1
    /\ args[1].sigs[1] = args[1].sigs[3]
    /\ args[1].sigs[1].tx_id = args[1].sigs[2].tx_id
    /\ Len(ret) = 2

\* the outbound calls that are inside make_request, of all callers
InFlight == {c \in DOMAIN calls : c.pc = "in_flight"}

\* C18: the calls in flight to one provider never number more than the permits
\* of that provider's semaphore, for the parallel fetches and for the height and
\* balance requests alike.
C18_ProviderBackpressure ==
    \A provider \in {"blockstream", "mempool", "cryptoapis"} :
        CountCalls({c \in InFlight : c.provider = provider}) <= ProviderCap

\* C19: the calls in flight to all providers, of all callers, never number more
\* than the value of the rate-limit semaphore configured at the moment.
C19_GlobalBackpressure == CountCalls(InFlight) <= rate_limit_semaphore.value

\* C20: a parallel fetch in which some provider answered with data returns data.
C20_FirstSuccessWins ==
    (DOMAIN ret # {} /\ \E i \in DOMAIN ret.completed : ret.completed[i] = Data)
    => ret.result = Data

\* the providers getTipHeight is to go through, in priority order
HeightChain == (IF cryptoapis_key THEN <<"cryptoapis">> ELSE <<>>) \o <<"blockstream", "mempool">>

\* C21: getTipHeight returns a height if and only if some provider of its chain
\* has one, and it asks the providers of the chain in order up to the first one
\* that has.
C21_HeightFallsThrough ==
    (ret # NotCalled /\ args.op = "height")
    => /\ ret.result = Data <=> \E i \in DOMAIN HeightChain : args.answers[HeightChain[i]] = Data
       /\ \A i \in DOMAIN HeightChain :
             (\A j \in 1..(i - 1) : args.answers[HeightChain[j]] # Data)
             => (Len(ret.asked) >= i /\ ret.asked[i] = HeightChain[i])

\* C22: an operation for which every provider fails returns its empty or zero
\* value and raises nothing.
C22_ExhaustionGivesEmpty ==
    (ret # NotCalled /\ \A provider \in DOMAIN args.answers : args.answers[provider] = None)
    => ret.result = Empty

C22_Witness ==
    /\ ret # NotCalled
    /\ \A provider \in DOMAIN args.answers : args.answers[provider] = None
    /\ args.op = "balance"
    /\ ret.result = Empty

\* C23: make_request makes at most `retries` GETs; when it has returned it
\* holds no permit, it returned the response exactly if its last GET got 200, no
\* earlier GET got 200, and it returned None only after `retries` failed GETs.
C23_RequestTerminates ==
    /\ Len(args.outcomes) <= args.retries
    /\ ret # "pending"
       => /\ GlobalHolders(rate_limit_semaphore) = 0
          /\ Len(args.outcomes) >= 1
          /\ \A i \in 1..(Len(args.outcomes) - 1) : args.outcomes[i] # "200"
          /\ ret = Data <=> args.outcomes[Len(args.outcomes)] = "200"
          /\ ret = None <=> (/\ Len(args.outcomes) = args.retries
                             /\ args.outcomes[Len(args.outcomes)] # "200")

\* a call that met a 429, another status and an exception has returned None
C23_Witness ==
    /\ ret = None
    /\ args.retries = Retries
    /\ args.outcomes = <<"429", "status", "exception">>

\* the number a string of hex digits stands for
RECURSIVE HexValue(_)
HexValue(str) ==
    IF str = <<>> THEN 0
    ELSE 16 * HexValue(SubSeq(str, 1, Len(str) - 1))
         + (CHOOSE v \in 0..15 : HexDigits[v + 1] = str[Len(str)])

\* C24: every key the correlation pass emits is a scalar of 1..n-1 written with
\* 64 hex digits, keys_recovered counts the emitted keys, and no key comes from
\* a group whose r is 0 modulo n (its result would be d = 0).
C24_KeysInRange ==
    ret # Pending
    => /\ scan_states[1].keys_recovered = Len(scan_states[1].recovered_keys)
       /\ \A i \in DOMAIN scan_states[1].recovered_keys :
             LET key == scan_states[1].recovered_keys[i]
             IN /\ Len(key.private_key) = KeyWidth
                /\ HexValue(key.private_key) \in 1..(CurveOrder - 1)
                /\ key.r_value % CurveOrder # 0

\* a pass over a group that gives a key and a group with r = 0 of two inputs:
\* recovery was called for both groups, one key was emitted
C24_Witness ==
    /\ ret # Pending
    /\ Len(args) = 2
    /\ args[2].r = 0
    /\ \E k \in DOMAIN ret : ret[k][1] = 2
    /\ scan_states[1].keys_recovered = 1
    /\ Len(scan_states[1].recovered_keys) = 1

\* the public point d*G, in the group generated by G written additively: the
\* point i*G is the residue i modulo the group order
PublicPoint(d) == d % CurveOrder

\* the address of a public point: the encoding of the hash of its serialisation
AddressOfPoint(point, compressed) == [hash160 |-> point, compressed |-> compressed]

\* C25: the two addresses stored in a RecoveredKey are the addresses of the
\* public point d*G, d being the recovered key
C25_AddressesFromPoint ==
    \A i \in DOMAIN scan_states[1].recovered_keys :
        LET key == scan_states[1].recovered_keys[i]
            point == PublicPoint(HexValue(key.private_key))
        IN /\ key.compressed_address = AddressOfPoint(point, TRUE)
           /\ key.uncompressed_address = AddressOfPoint(point, FALSE)

\* the progress counters of a job
JobCounters(job) ==
    <<job.signatures_found, job.blocks_scanned, job.current_block, job.progress_percentage>>

\* the step is the join of a batch of a task of job id
JoinsBatch(id) ==
    \E t \in DOMAIN tasks :
        /\ tasks[t].scan_id = id
        /\ tasks[t].pc = "gather"
        /\ \A b \in DOMAIN tasks[t].blk : tasks[t].blk[b].pc = "done"
        /\ tasks'[t].pc = "sleep"

\* the step makes task t go from one batch to the next
NextBatch(t) ==
    /\ tasks[t].pc = "sleep"
    /\ tasks'[t].pc = "gather"

\* C26: a task goes to its next batch only when every block task of the
\* current one has finished, the next batch lies after it in block order, a
\* block task starts only in the batch in flight, and the counters of a job
\* change only in a step that joins a batch of its task
C26_BatchesInOrder ==
    [][/\ \A t \in DOMAIN tasks :
             /\ NextBatch(t)
                => /\ \A b \in DOMAIN tasks[t].blk : tasks[t].blk[b].pc = "done"
                   /\ \A b \in DOMAIN tasks'[t].blk : b > tasks[t].batch_end
             /\ \A b \in tasks'[t].fetched \ tasks[t].fetched :
                   /\ tasks[t].pc = "gather"
                   /\ b \in tasks[t].batch_start..tasks[t].batch_end
       /\ \A id \in DOMAIN scan_states :
             JobCounters(scan_states'[id]) # JobCounters(scan_states[id]) => JoinsBatch(id)]_vars

\* a stop request has been accepted for job 1 while it was Initializing: its
\* task has not begun and the entry says stopped
StoppedEarly ==
    /\ tasks[1].pc = "pending"
    /\ scan_states[1].status = "stopped"

\* C27: the stop stands when the task begins: the status is the stop flag the
\* batch loop tests, and the step that takes the task of a job stopped while
\* Initializing out of its queue leaves it set
C27_EarlyStopHonoured ==
    [][(StoppedEarly /\ tasks'[1].pc # "pending")
          => scan_states'[1].status = "stopped"]_vars

\* C28: whatever configurations are set while the scan runs, no block handed
\* to a block task of a new batch was handed to one before, and a scan that
\* ends without having been stopped has handed out every block of its range
C28_PartitionKept ==
    [][/\ NextBatch(1) => \A b \in DOMAIN tasks'[1].blk : b \notin tasks[1].fetched
       /\ (Finishing(1) /\ scan_states[1].status # "stopped")
             => tasks[1].fetched = tasks[1].start_block..tasks[1].end_block]_vars

\* what the correlation pass writes into a job
PassResults(job) == <<job.r_reuse_pairs, job.keys_recovered, job.recovered_keys>>

\* C29: a task ends only from the pause after a joined batch, never with a
\* batch in flight, stopped or not; the step that ends it is its one run of the
\* correlation pass, over the signatures merged at the joins so far; and the
\* results of a job change in no other step, the creation of the job apart
C29_OnePassAfterLastJoin ==
    [][/\ \A t \in DOMAIN tasks :
             Finishing(t)
             => LET id == tasks[t].scan_id
                    sbr == tasks[t].signatures_by_r
                IN /\ tasks[t].pc = "sleep"
                   /\ \A b \in DOMAIN tasks[t].blk : tasks[t].blk[b].pc = "done"
                   /\ scan_states'[id].recovered_keys = AllKeys(sbr)
                   /\ scan_states'[id].r_reuse_pairs = ReusedCount(sbr)
                   /\ scan_states'[id].keys_recovered
                         = scan_states[id].keys_recovered + Len(AllKeys(sbr))
       /\ \A id \in DOMAIN scan_states :
             PassResults(scan_states'[id]) # PassResults(scan_states[id])
             => \/ \E t \in DOMAIN tasks : tasks[t].scan_id = id /\ Finishing(t)
                \/ Len(tasks') > Len(tasks)]_vars

\* a scan stopped before its range was done has ended and its pass has
\* recovered a key from the signatures of the batches that had joined
C29_Witness ==
    \E t \in DOMAIN tasks :
        /\ tasks[t].pc = "done"
        /\ scan_states[tasks[t].scan_id].status = "completed"
        /\ scan_states[tasks[t].scan_id].blocks_scanned < scan_states[tasks[t].scan_id].total_blocks
        /\ scan_states[tasks[t].scan_id].keys_recovered >= 1

\* C30: when the pass has returned, r_reuse_pairs is the number of pairs of
\* records with the same r and different inputs, which is the number of pairs
\* for which recovery was attempted
C30_PairsCounted ==
    ret # Pending
    => /\ scan_states[1].r_reuse_pairs = Len(ret)
       /\ scan_states[1].r_reuse_pairs
            = Cardinality({p \in (DOMAIN args) \X (1..MaxGroup) \X (1..MaxGroup) :
                              DifferentInputs(args[p[1]], p[2], p[3])})

\* C31: a block task or a transaction task that ends in an error stays inside
\* its batch, gives no signatures, adds an entry to the log of the scan and
\* adds one to its errors_encountered
C31_TaskErrorsCounted ==
    [][\A b \in Blocks :
          /\ BlockError(1, b)
                => /\ tasks'[1].pc = "gather"
                   /\ tasks'[1].blk[b].signatures = <<>>
                   /\ scan_states'[1].logs = scan_states[1].logs + 1
                   /\ scan_states'[1].errors_encountered = scan_states[1].errors_encountered + 1
          /\ \A x \in Blocks :
                TxError(1, b, x)
                => /\ tasks'[1].pc = "gather"
                   /\ tasks'[1].blk[b].got[x] = <<>>
                   /\ scan_states'[1].logs = scan_states[1].logs + 1
                   /\ scan_states'[1].errors_encountered = scan_states[1].errors_encountered + 1]_vars

\* the block tasks of the batch in flight that are past its semaphore
PastSemaphore(tk) == {b \in DOMAIN tk.blk : tk.blk[b].pc \notin {"wait", "done"}}

\* C32: the block tasks of a batch that are past the batch semaphore are never
\* more than the max_concurrent_blocks the semaphore was built with; a block
\* task that waits stays in the batch, and the batch joins only when every
\* block of it has been started and has finished
C32_BlockCap ==
    [][/\ Cardinality(PastSemaphore(tasks'[1])) <= tasks'[1].sem
       /\ \A b \in DOMAIN tasks[1].blk :
             (tasks[1].blk[b].pc = "wait" /\ tasks'[1].pc = "gather")
             => b \in DOMAIN tasks'[1].blk
       /\ (tasks[1].pc = "gather" /\ tasks'[1].pc # "gather")
             => /\ tasks[1].batch_start..tasks[1].batch_end \subseteq tasks[1].fetched
                /\ \A b \in DOMAIN tasks[1].blk : tasks[1].blk[b].pc = "done"]_vars

\* the cap is 1, one block task is fetching and another one of the batch waits
C32_Witness ==
    /\ tasks[1].pc = "gather"
    /\ tasks[1].sem = 1
    /\ Cardinality(PastSemaphore(tasks[1])) = 1
    /\ \E b \in DOMAIN tasks[1].blk : tasks[1].blk[b].pc = "wait"

\* the buffer holds SEQUENCE, INTEGER r, INTEGER s with lengths that fit
WellFormed(B) ==
    /\ Len(B) >= 8
    /\ B[1] = 48
    /\ B[3] = 2
    /\ 4 + B[4] <= Len(B)
    /\ 4 + B[4] + 2 <= Len(B)
    /\ B[4 + B[4] + 1] = 2
    /\ 4 + B[4] + 2 + B[4 + B[4] + 2] <= Len(B)

\* C36: the parse returns r and s, the r_len bytes after the first length and
\* the s_len bytes after the second, exactly for the buffers of at least 8
\* bytes with the three tags in place and both lengths inside the buffer; for
\* every other buffer it returns no signature
C36_StrictDerParse ==
    ret # Pending
    => LET B == args.der_bytes
       IN IF WellFormed(B)
          THEN ret = <<BytesHex(SubSeq(B, 5, 4 + B[4])),
                       BytesHex(SubSeq(B, 4 + B[4] + 3, 4 + B[4] + 2 + B[4 + B[4] + 2]))>>
          ELSE ret = NoSig

\* parsed: a buffer of 9 bytes that holds r and s of one byte each
C36_Witness ==
    /\ ret = <<<<"0", "1">>, <<"0", "2">>>>
    /\ Len(args.der_bytes) = 9
    /\ WellFormed(args.der_bytes)

\* the first input of the transaction, and the records of each path for it
TheVin == args.tx_data.vin[1]
LegacyRecords ==
    SelectSeq(ret.signatures, LAMBDA rec : rec.type = "legacy" /\ rec.input_index = 0)
WitnessRecords ==
    SelectSeq(ret.signatures, LAMBDA rec : rec.type = "segwit" /\ rec.input_index = 0)

\* C33: a legacy record comes only from an input whose script-signature has
\* at least 20 bytes (40 hex digits), and only with legacy in scope
C33_LegacyNeedsTwentyBytes ==
    (ret.returned /\ LegacyRecords # <<>>)
    => /\ "legacy" \in args.address_types
       /\ Len(TheVin.scriptsig) \div 2 >= 20

\* offset i (from 0) of buffer B holds 0x30, the length declared in the next
\* byte fits in the rest of the buffer, and the candidate is well formed
CandidateAt(B, i) == SubSeq(B, i + 1, i + 2 + B[i + 2])
ParsesAt(B, i) ==
    /\ i + 2 <= Len(B)
    /\ B[i + 1] = 48
    /\ i + 2 + B[i + 2] <= Len(B)
    /\ WellFormed(CandidateAt(B, i))

\* C34: for a script-signature past the length floor, the legacy path returns
\* the record of the lowest offset whose candidate parses, with the r and s of
\* that candidate, and no record if no offset has one
C34_LowestOffsetWins ==
    (ret.returned /\ "legacy" \in args.address_types /\ Len(TheVin.scriptsig) \div 2 >= 20)
    => LET B == FromHex(TheVin.scriptsig)
           offsets == {i \in 0..(Len(B) - 1) : ParsesAt(B, i)}
       IN IF offsets = {} THEN LegacyRecords = <<>>
          ELSE LET D == CandidateAt(B, CHOOSE i \in offsets : \A j \in offsets : i <= j)
               IN /\ Len(LegacyRecords) = 1
                  /\ LegacyRecords[1].r = BytesHex(SubSeq(D, 5, 4 + D[4]))
                  /\ LegacyRecords[1].s
                       = BytesHex(SubSeq(D, 4 + D[4] + 3, 4 + D[4] + 2 + D[4 + D[4] + 2]))

\* C35: the witness path gives a record exactly when segwit or taproot is in
\* scope, the stack has two items or more, the first item has more than 8
\* bytes, begins with 0x30 and is well formed once its last byte is removed;
\* the record carries the r and s of that item
C35_WitnessRecord ==
    ret.returned
    => LET stack == TheVin.witness
           item == IF stack = <<>> THEN <<>> ELSE FromHex(stack[1])
           D == SubSeq(item, 1, Len(item) - 1)
           expected == /\ ("segwit" \in args.address_types \/ "taproot" \in args.address_types)
                       /\ Len(stack) >= 2
                       /\ Len(item) > 8
                       /\ item[1] = 48
                       /\ WellFormed(D)
       IN IF expected
          THEN /\ Len(WitnessRecords) = 1
               /\ WitnessRecords[1].r = BytesHex(SubSeq(D, 5, 4 + D[4]))
               /\ WitnessRecords[1].s
                    = BytesHex(SubSeq(D, 4 + D[4] + 3, 4 + D[4] + 2 + D[4 + D[4] + 2]))
          ELSE WitnessRecords = <<>>

\* the records extract_signatures returned for input i (from 0) with this type
RecordsOf(i, type) ==
    SelectSeq(ret.signatures, LAMBDA rec : rec.input_index = i /\ rec.type = type)

\* C37: a legacy record is emitted only with legacy in scope and a witness
\* record only with segwit or taproot in scope; every record has type legacy
\* or segwit and the transaction id and index of the input it was read from;
\* an input gives at most one record per path
C37_AddressTypeScoping ==
    ret.returned
    => LET vin == args.tx_data.vin
           tx_id == args.tx_data.txid
       IN /\ \A k \in 1..Len(ret.signatures) :
                LET rec == ret.signatures[k]
                    i == rec.input_index
                IN /\ rec.type \in {"legacy", "segwit"}
                   /\ rec.tx_id = tx_id
                   /\ i \in 0..(Len(vin) - 1)
                   /\ rec.type = "legacy"
                        => /\ "legacy" \in args.address_types
                           /\ <<rec>> = parse_legacy_signature(vin[i + 1].scriptsig, tx_id, i)
                   /\ rec.type = "segwit"
                        => /\ \/ "segwit" \in args.address_types
                              \/ "taproot" \in args.address_types
                           /\ <<rec>> = parse_witness_signature(vin[i + 1].witness, tx_id, i)
          /\ \A i \in 0..(Len(vin) - 1), type \in {"legacy", "segwit"} :
                Len(RecordsOf(i, type)) <= 1

\* both inputs of a transaction gave a legacy record and a witness record
C37_Witness ==
    /\ ret.returned
    /\ Len(args.tx_data.vin) = 2
    /\ \A i \in {0, 1}, type \in {"legacy", "segwit"} : Len(RecordsOf(i, type)) = 1

\* the number of records held in a map from r value to list of records
RECURSIVE RecordsHeld(_)
RecordsHeld(sbr) ==
    IF sbr = <<>> THEN 0 ELSE Len(Head(sbr).sigs) + RecordsHeld(Tail(sbr))

\* C39: when a batch of a scan has joined, the job's signatures_found is the
\* number of records held in the scan's map of r values
C39_FoundEqualsGrouped ==
    [][\A t \in DOMAIN tasks :
          (t \in DOMAIN tasks' /\ tasks[t].pc = "gather" /\ tasks'[t].pc = "sleep")
          => scan_states'[tasks[t].scan_id].signatures_found
               = RecordsHeld(tasks'[t].signatures_by_r)]_vars

\* get_scan_results: total_keys is the length of the job's recovered_keys
total_keys(job) == Len(job.recovered_keys)

\* C40: a job whose status is completed, stopped or failed has keys_recovered
\* equal to the total_keys that get_scan_results returns for it
C40_KeysCountedAsListed ==
    \A id \in DOMAIN scan_states :
        scan_states[id].status \in {"completed", "stopped", "failed"}
        => scan_states[id].keys_recovered = total_keys(scan_states[id])

\* every scan task has ended and its job has a terminal status
AllEnded ==
    \A t \in DOMAIN tasks :
        /\ tasks[t].pc = "done"
        /\ scan_states[tasks[t].scan_id].status \in {"completed", "stopped", "failed"}

\* C38: when every network call returns and every ready task runs, every
\* accepted scan reaches a terminal status: the batch, provider and global
\* semaphores never leave two scans waiting for ever
C38_EveryScanEnds == <>AllEnded

\* both scans are in their batch loop; a block task of one waits for the batch
\* semaphore, a call waits for its provider's semaphore and another call, past
\* its provider's semaphore, waits for the global one
C38_Witness ==
    /\ \A t \in DOMAIN tasks : tasks[t].pc = "gather"
    /\ \E b \in DOMAIN tasks[1].blk : tasks[1].blk[b].pc = "wait"
    /\ \E c \in DOMAIN calls : c.pc = "provider_wait"
    /\ \E c \in DOMAIN calls : c.pc = "global_wait"
====
